---- MODULE Spec2Model ----
(***************************************************************************)
(* A model of the credit-report core of creditrepair-pro:                  *)
(*   backend/analyzers/error_detector.py      (ErrorDetector)              *)
(*   backend/dispute_engine/strategy_builder.py (StrategyBuilder)          *)
(*   backend/parsers/pdf_parser.py            (PDFParser, field extractor) *)
(*                                                                         *)
(* Python values are modelled by what the code does with them:             *)
(*   - a dict is a record whose DOMAIN is the set of keys that are present;*)
(*     d.get(k, default) is Get(d, k, default);                            *)
(*   - a value that may be None, a number or a string is a tagged record   *)
(*     [t, n, s] (PyNone, PyInt(i), PyStr(chars));                         *)
(*   - a string the code inspects (lower(), "x in s", strip(), slicing,    *)
(*     strptime) is a sequence of one-character strings;                   *)
(*   - an exception is the outcome [raised |-> TRUE].                      *)
(***************************************************************************)
EXTENDS Integers, Sequences, FiniteSets, TLC

VARIABLES
    report,      \* the report_data handed to analyze_report, or NoReport
    now,         \* the clock read by datetime.utcnow(): [day, tod]
    ticks,       \* how often the clock has advanced (bounds the model)
    run1,        \* outcome of the first analyze_report call on report
    run2,        \* outcome of the second analyze_report call on report
    strategy,    \* the last build_strategy call: its arguments and result
    extraction,  \* the last _extract_accounts call: its arguments and result
    upload,      \* the process_upload call in progress: its position and locals
    calls,       \* the concurrent calls on the shared instances, each with its locals
    disputes     \* the disputes table, the scheduler runs so far and the reminders sent

vars == <<report, now, ticks, run1, run2, strategy, extraction, upload, calls, disputes>>

----------------------------------------------------------------------------
(* Python values *)

PyNone == [t |-> "None", n |-> 0, s |-> <<>>]

PyInt(i) == [t |-> "int", n |-> i, s |-> <<>>]

PyStr(chars) == [t |-> "str", n |-> 0, s |-> chars]

PyTrue == [t |-> "bool", n |-> 1, s |-> <<>>]

PyFalse == [t |-> "bool", n |-> 0, s |-> <<>>]

\* dict.get(key, default)
Get(d, key, default) == IF key \in DOMAIN d THEN d[key] ELSE default

\* dict.get(key): None when the key is absent
GetOrNone(d, key) == Get(d, key, PyNone)

\* Python truthiness of a tagged value
Truthy(v) ==
    CASE v.t = "None" -> FALSE
      [] v.t = "int"  -> v.n # 0
      [] v.t = "bool" -> v.n # 0
      [] v.t = "float" -> v.n # 0
      [] v.t = "str"  -> v.s # <<>>
      [] OTHER        -> TRUE

\* the idiom "x or 0"
OrZero(v) == IF Truthy(v) THEN v ELSE PyInt(0)

\* int, float and bool are numbers
IsNum(v) == v.t \in {"int", "float", "bool"}

\* the value of a number in hundredths (a float is kept in hundredths)
Cents(v) == IF v.t = "float" THEN v.n ELSE 100 * v.n

\* "a > b" raises TypeError unless both operands are numbers
GtRaises(a, b) == ~IsNum(a) \/ ~IsNum(b)

\* "a > b" for two numbers
Gt(a, b) == Cents(a) > Cents(b)

\* "a == b" never raises; numbers compare by value, other values of different
\* types are unequal
PyEq(a, b) == IF IsNum(a) /\ IsNum(b) THEN Cents(a) = Cents(b) ELSE a = b

UpperChars == <<"A","B","C","D","E","F","G","H","I","J","K","L","M",
                "N","O","P","Q","R","S","T","U","V","W","X","Y","Z">>

LowerChars == <<"a","b","c","d","e","f","g","h","i","j","k","l","m",
                "n","o","p","q","r","s","t","u","v","w","x","y","z">>

\* str.lower() on one character
LowerChar(c) ==
    IF \E i \in 1..26 : UpperChars[i] = c
    THEN LowerChars[CHOOSE i \in 1..26 : UpperChars[i] = c]
    ELSE c

\* str.lower()
Lower(chars) == [i \in 1..Len(chars) |-> LowerChar(chars[i])]

\* "x in s" for two strings
Contains(chars, x) ==
    \E i \in 0..(Len(chars) - Len(x)) : SubSeq(chars, i + 1, i + Len(x)) = x

\* v.lower() raises AttributeError unless v is a string
LowerRaises(v) == v.t # "str"

Digits == <<"0","1","2","3","4","5","6","7","8","9">>

IsDigit(c) == \E i \in 1..10 : Digits[i] = c

DigitVal(c) == (CHOOSE i \in 1..10 : Digits[i] = c) - 1

\* the number written by a sequence of digits
RECURSIVE NumVal(_)
NumVal(chars) ==
    IF chars = <<>> THEN 0
    ELSE 10 * NumVal(SubSeq(chars, 1, Len(chars) - 1)) + DigitVal(chars[Len(chars)])

AllDigits(chars) == \A i \in 1..Len(chars) : IsDigit(chars[i])

\* sum of a sequence of integers
RECURSIVE SumSeq(_)
SumSeq(q) == IF q = <<>> THEN 0 ELSE Head(q) + SumSeq(Tail(q))

\* concatenation of a sequence of sequences
RECURSIVE Flatten(_)
Flatten(qq) == IF qq = <<>> THEN <<>> ELSE Head(qq) \o Flatten(Tail(qq))

\* the elements of q that satisfy Test, in order
SelectType(q, ty) == SelectSeq(q, LAMBDA e : e.type = ty)

----------------------------------------------------------------------------
(* Strings the model uses *)

S_open == <<"o","p","e","n">>
S_Open == <<"O","p","e","n">>
S_closed == <<"c","l","o","s","e","d">>
S_Closed == <<"C","l","o","s","e","d">>
S_paid == <<"p","a","i","d">>
S_unpaid == <<"u","n","p","a","i","d">>
S_credit_card == <<"c","r","e","d","i","t"," ","c","a","r","d">>
S_revolving == <<"r","e","v","o","l","v","i","n","g">>
S_Revolving == <<"R","e","v","o","l","v","i","n","g">>
S_mortgage == <<"m","o","r","t","g","a","g","e">>
S_medical == <<"m","e","d","i","c","a","l">>
S_hospital == <<"h","o","s","p","i","t","a","l">>
S_clinic == <<"c","l","i","n","i","c">>
S_health == <<"h","e","a","l","t","h">>
S_ABC_Bank == <<"A","B","C"," ","B","a","n","k">>
S_City_Hospital == <<"C","i","t","y"," ","H","o","s","p","i","t","a","l">>
S_abc == <<"a","b","c">>

----------------------------------------------------------------------------
(* ErrorDetector: the lookup tables *)

\* ErrorDetector.ERROR_TYPES (the "description" entry is read nowhere)
ERROR_TYPES ==
    "outdated_negative" :> [name |-> "Outdated Negative (7+ Years)", severity |-> "high", fcra_section |-> "605(a)(1)", estimated_impact |-> 15] @@
    "outdated_inquiry" :> [name |-> "Outdated Hard Inquiry (2+ Years)", severity |-> "medium", fcra_section |-> "605(a)(3)", estimated_impact |-> 5] @@
    "outdated_bankruptcy" :> [name |-> "Outdated Bankruptcy (10+ Years)", severity |-> "high", fcra_section |-> "605(a)(1)", estimated_impact |-> 50] @@
    "balance_exceeds_limit" :> [name |-> "Balance Exceeds Credit Limit", severity |-> "high", fcra_section |-> "623(a)(1)", estimated_impact |-> 10] @@
    "missing_credit_limit" :> [name |-> "Missing Credit Limit", severity |-> "medium", fcra_section |-> "609(a)(1)", estimated_impact |-> 5] @@
    "duplicate_account" :> [name |-> "Duplicate Account", severity |-> "high", fcra_section |-> "623(a)(1)", estimated_impact |-> 15] @@
    "impossible_late_pattern" :> [name |-> "Impossible Late Payment Pattern", severity |-> "high", fcra_section |-> "623(a)(1)", estimated_impact |-> 20] @@
    "contradictory_status" :> [name |-> "Contradictory Account Status", severity |-> "high", fcra_section |-> "623(a)(1)", estimated_impact |-> 15] @@
    "paid_collection" :> [name |-> "Paid Collection Still Reporting", severity |-> "medium", fcra_section |-> "623(a)(1)", estimated_impact |-> 10] @@
    "medical_collection_ncap" :> [name |-> "Medical Collection (NCAP Eligible)", severity |-> "medium", fcra_section |-> "NCAP 2022", estimated_impact |-> 15] @@
    "tax_lien_ncap" :> [name |-> "Tax Lien (NCAP Eligible - 2018+)", severity |-> "high", fcra_section |-> "NCAP 2018", estimated_impact |-> 30] @@
    "charge_off_balance_growth" :> [name |-> "Charge-Off Balance Increasing", severity |-> "high", fcra_section |-> "623(a)(1)", estimated_impact |-> 15] @@
    "closed_with_balance" :> [name |-> "Closed Account with Balance", severity |-> "high", fcra_section |-> "623(a)(1)", estimated_impact |-> 15] @@
    "future_date" :> [name |-> "Future Date Listed", severity |-> "high", fcra_section |-> "623(a)(1)", estimated_impact |-> 10] @@
    "missing_date" :> [name |-> "Missing Critical Date", severity |-> "medium", fcra_section |-> "609(a)(1)", estimated_impact |-> 5] @@
    "re_aging" :> [name |-> "Account Re-Aging", severity |-> "high", fcra_section |-> "623(a)(5)", estimated_impact |-> 25] @@
    "authorized_user_negative" :> [name |-> "Authorized User Account Negative", severity |-> "medium", fcra_section |-> "605(a)(1)", estimated_impact |-> 10] @@
    "settled_with_balance" :> [name |-> "Settled Account with Balance", severity |-> "high", fcra_section |-> "623(a)(1)", estimated_impact |-> 15] @@
    "unauthorized_inquiry" :> [name |-> "Unauthorized Hard Inquiry", severity |-> "medium", fcra_section |-> "604(a)(3)", estimated_impact |-> 5] @@
    "cross_bureau_discrepancy" :> [name |-> "Cross-Bureau Discrepancy", severity |-> "high", fcra_section |-> "623(a)(1)", estimated_impact |-> 15] @@
    "not_my_account" :> [name |-> "Account Not Mine", severity |-> "high", fcra_section |-> "605B", estimated_impact |-> 20] @@
    "identity_theft" :> [name |-> "Identity Theft / Fraud", severity |-> "critical", fcra_section |-> "605B", estimated_impact |-> 50] @@
    "mixed_file" :> [name |-> "Mixed Credit File", severity |-> "high", fcra_section |-> "607(b)", estimated_impact |-> 30]

\* the table inside _get_strategy_for_error
StrategyTable ==
    "outdated_negative" :> "fcra_violation" @@
    "outdated_inquiry" :> "fcra_violation" @@
    "balance_exceeds_limit" :> "factual_dispute" @@
    "duplicate_account" :> "not_my_account" @@
    "impossible_late_pattern" :> "fcra_violation" @@
    "paid_collection" :> "collection_validation" @@
    "medical_collection_ncap" :> "collection_validation" @@
    "closed_with_balance" :> "factual_dispute" @@
    "unauthorized_inquiry" :> "fcra_violation" @@
    "identity_theft" :> "section_605b"

_get_strategy_for_error(error_type) == Get(StrategyTable, error_type, "factual_dispute")

\* a slip in the table of _severity_to_priority: high and medium share a rank
PriorityOfMerged(severity) ==
    Get("critical" :> 1 @@ "high" :> 3 @@ "medium" :> 3 @@ "low" :> 4, severity, 3)

\* the table inside _severity_to_priority
PriorityTable == "critical" :> 1 @@ "high" :> 2 @@ "medium" :> 3 @@ "low" :> 4

_severity_to_priority(severity) == Get(PriorityTable, severity, 3)

\* an f-string: its fixed text and the values formatted into it
Description(text, args) == [text |-> text, args |-> args]

_create_error(error_type, account, description) ==
    LET error_info == Get(ERROR_TYPES, error_type, <<>>)
        severity == Get(error_info, "severity", "medium")
    IN  [type |-> error_type,
         name |-> Get(error_info, "name", error_type),
         description |-> description,
         account |-> [creditor_name |-> GetOrNone(account, "creditor_name"),
                      account_number |-> GetOrNone(account, "account_number"),
                      account_type |-> GetOrNone(account, "account_type")],
         severity |-> severity,
         fcra_section |-> Get(error_info, "fcra_section", "623(a)(1)"),
         estimated_impact |-> Get(error_info, "estimated_impact", 10),
         dispute_strategy |-> _get_strategy_for_error(error_type),
         priority |-> _severity_to_priority(severity)]

----------------------------------------------------------------------------
(* ErrorDetector._analyze_account *)

\* the truthiness of account.get(flag)
Flag(account, key) == Truthy(GetOrNone(account, key))

MedicalTerms == {S_medical, S_hospital, S_clinic, S_health}

CardTypes == {S_credit_card, S_revolving}

\* a slip in line 225: >= for >
BalanceReachesLimit(balance, limit) == Gt(limit, PyInt(0)) /\ balance.n >= limit.n

\* line 225: limit > 0 and balance > limit, for two numbers
BalanceExceedsLimit(balance, limit) == Gt(limit, PyInt(0)) /\ Gt(balance, limit)

\* a slip in line 246: "and" for "or"
ImpossibleLateBoth(late_30, late_60, late_90) ==
    Gt(late_90, PyInt(0)) /\ (PyEq(late_30, PyInt(0)) /\ PyEq(late_60, PyInt(0)))

\* line 246: late_90 > 0 and (late_30 == 0 or late_60 == 0), for a number late_90
ImpossibleLatePattern(late_30, late_60, late_90) ==
    Gt(late_90, PyInt(0)) /\ (PyEq(late_30, PyInt(0)) \/ PyEq(late_60, PyInt(0)))

\* The outcome of _analyze_account: [raised, errors].  The statements are
\* evaluated in source order; the first one that raises ends the call and the
\* errors collected so far are lost with it.
_analyze_account(account) ==
    LET balance == OrZero(Get(account, "current_balance", PyInt(0)))
        limit == OrZero(Get(account, "credit_limit", PyInt(0)))
        status_v == Get(account, "account_status", PyStr(<<>>))
        type_v == Get(account, "account_type", PyStr(<<>>))
        creditor_v == Get(account, "creditor_name", PyStr(<<>>))
        late_30 == OrZero(Get(account, "late_30_count", PyInt(0)))
        late_60 == OrZero(Get(account, "late_60_count", PyInt(0)))
        late_90 == OrZero(Get(account, "late_90_count", PyInt(0)))
        \* line 225: limit > 0 and balance > limit
        raise_limit == GtRaises(limit, PyInt(0))
                       \/ (Gt(limit, PyInt(0)) /\ GtRaises(balance, limit))
        exceeds == ~raise_limit /\ BalanceExceedsLimit(balance, limit)
        \* line 233: account_status.lower() == "open" and limit == 0
        raise_status == LowerRaises(status_v)
        status == Lower(status_v.s)
        open_no_limit == ~raise_status /\ status = S_open /\ PyEq(limit, PyInt(0))
        \* line 234: account_type.lower() in ["credit card", "revolving"]
        raise_type == open_no_limit /\ LowerRaises(type_v)
        missing_limit == open_no_limit /\ ~raise_type /\ Lower(type_v.s) \in CardTypes
        \* line 246: late_90 > 0 and (late_30 == 0 or late_60 == 0)
        raise_late == GtRaises(late_90, PyInt(0))
        impossible == ~raise_late /\ ImpossibleLatePattern(late_30, late_60, late_90)
        \* lines 254-256: closed or paid, balance > 0, not a collection
        closed_or_paid == ~raise_status
                          /\ (Contains(status, S_closed) \/ Contains(status, S_paid))
        raise_balance == closed_or_paid /\ GtRaises(balance, PyInt(0))
        closed_balance == closed_or_paid /\ ~raise_balance /\ Gt(balance, PyInt(0))
                          /\ ~Flag(account, "is_collection")
        \* lines 269-271: a collection whose creditor name holds a medical term
        raise_creditor == Flag(account, "is_collection") /\ LowerRaises(creditor_v)
        medical == Flag(account, "is_collection") /\ ~raise_creditor
                   /\ \E term \in MedicalTerms : Contains(Lower(creditor_v.s), term)
        \* line 279
        au_negative == Flag(account, "is_authorized_user") /\ Flag(account, "is_negative")
        raised == raise_limit \/ raise_status \/ raise_type \/ raise_late
                  \/ raise_balance \/ raise_creditor
        errors ==
            (IF exceeds
             THEN <<_create_error("balance_exceeds_limit", account,
                        Description("Balance ($%) exceeds limit ($%)", <<balance, limit>>))>>
             ELSE <<>>)
            \o (IF missing_limit
                THEN <<_create_error("missing_credit_limit", account,
                        Description("Credit limit not reported", <<>>))>>
                ELSE <<>>)
            \o (IF impossible
                THEN <<_create_error("impossible_late_pattern", account,
                        Description("90+ day late without corresponding 30/60 day lates", <<>>))>>
                ELSE <<>>)
            \o (IF closed_balance
                THEN <<_create_error("closed_with_balance", account,
                        Description("Closed/paid account shows $% balance", <<balance>>))>>
                ELSE <<>>)
            \o (IF medical
                THEN <<_create_error("medical_collection_ncap", account,
                        Description("Medical collection - may be eligible for NCAP removal", <<>>))>>
                ELSE <<>>)
            \o (IF au_negative
                THEN <<_create_error("authorized_user_negative", account,
                        Description("Authorized user account showing negative history", <<>>))>>
                ELSE <<>>)
    IN  IF raised THEN [raised |-> TRUE, errors |-> <<>>]
        ELSE [raised |-> FALSE, errors |-> errors]

----------------------------------------------------------------------------
(* ErrorDetector._check_cross_bureau_discrepancies *)

\* the distinct elements of q in the order of their first occurrence: the key
\* order of a dict filled by one pass over q
RECURSIVE FirstOccurrences(_)
FirstOccurrences(q) ==
    IF q = <<>> THEN <<>>
    ELSE LET rest == FirstOccurrences(SubSeq(q, 1, Len(q) - 1))
             last == q[Len(q)]
         IN  IF \E i \in 1..Len(rest) : rest[i] = last THEN rest ELSE Append(rest, last)

\* set(values): the number of distinct values
Distinct(values) == Cardinality({values[i] : i \in 1..Len(values)})

AccountNumber(account) == Get(account, "account_number", PyStr(<<>>))

\* by_account: the truthy account numbers, in insertion order
GroupKeys(accounts) ==
    FirstOccurrences(SelectSeq([i \in 1..Len(accounts) |-> AccountNumber(accounts[i])],
                               Truthy))

\* by_account[acct_num]
GroupOf(accounts, acct_num) ==
    SelectSeq(accounts, LAMBDA a : AccountNumber(a) = acct_num)

Discrepancy(acct_num, text, values) ==
    [type |-> "cross_bureau_discrepancy",
     account_number |-> acct_num,
     description |-> Description(text, values),
     severity |-> "high",
     fcra_section |-> "623(a)(1)"]

\* a slip in line 317: the status comparison left out
GroupBalanceOnly(acct_num, acct_list) ==
    LET balances == [i \in 1..Len(acct_list) |->
                        Get(acct_list[i], "current_balance", PyInt(0))]
    IN  IF Len(acct_list) > 1 /\ Distinct(balances) > 1
        THEN <<Discrepancy(acct_num, "Balance varies across bureaus: %", balances)>>
        ELSE <<>>

\* the body of the loop over by_account.items()
GroupDiscrepancies(acct_num, acct_list) ==
    LET balances == [i \in 1..Len(acct_list) |->
                        Get(acct_list[i], "current_balance", PyInt(0))]
        statuses == [i \in 1..Len(acct_list) |->
                        Get(acct_list[i], "account_status", PyStr(<<>>))]
    IN  IF Len(acct_list) > 1
        THEN (IF Distinct(balances) > 1
              THEN <<Discrepancy(acct_num, "Balance varies across bureaus: %", balances)>>
              ELSE <<>>)
             \o (IF Distinct(statuses) > 1
                 THEN <<Discrepancy(acct_num, "Status varies across bureaus: %", statuses)>>
                 ELSE <<>>)
        ELSE <<>>

_check_cross_bureau_discrepancies(accounts) ==
    LET keys == GroupKeys(accounts)
    IN  Flatten([k \in 1..Len(keys) |->
                    GroupDiscrepancies(keys[k], GroupOf(accounts, keys[k]))])

----------------------------------------------------------------------------
(* Dates: datetime, timedelta, strptime *)

\* strptime raised ValueError
NoDate == 0 - 1

IsLeap(y) == (y % 4 = 0 /\ y % 100 # 0) \/ y % 400 = 0

DaysInMonth(y, m) ==
    IF m = 2 THEN (IF IsLeap(y) THEN 29 ELSE 28)
    ELSE IF m \in {4, 6, 9, 11} THEN 30 ELSE 31

\* the day number of the proleptic Gregorian date y-m-d (1970-01-01 is day 0)
DayNumber(y, m, d) ==
    LET yy == IF m <= 2 THEN y - 1 ELSE y
        era == yy \div 400
        yoe == yy - era * 400
        mp == (m + 9) % 12
        doy == (153 * mp + 2) \div 5 + d - 1
        doe == yoe * 365 + yoe \div 4 - yoe \div 100 + doy
    IN  era * 146097 + doe - 719468

\* the date of a day number: [y, m, d]
CivilFromDays(z) ==
    LET zz == z + 719468
        era == zz \div 146097
        doe == zz - era * 146097
        yoe == (doe - doe \div 1460 + doe \div 36524 - doe \div 146096) \div 365
        doy == doe - (365 * yoe + yoe \div 4 - yoe \div 100)
        mp == (5 * doy + 2) \div 153
        d == doy - (153 * mp + 2) \div 5 + 1
        m == IF mp < 10 THEN mp + 3 ELSE mp - 9
    IN  [y |-> yoe + era * 400 + (IF m <= 2 THEN 1 ELSE 0), m |-> m, d |-> d]

\* a datetime: the day number and the seconds since midnight
DateTime(day, tod) == [day |-> day, tod |-> tod]

\* datetime - timedelta(days=n)
MinusDays(dt, n) == DateTime(dt.day - n, dt.tod)

\* datetime + timedelta(days=n)
PlusDays(dt, n) == DateTime(dt.day + n, dt.tod)

\* a < b for two datetimes
Before(a, b) == a.day < b.day \/ (a.day = b.day /\ a.tod < b.tod)

\* the strptime directive %m: 1[0-2]|0[1-9]|[1-9]
IsMonthPart(p) ==
    \/ Len(p) = 2 /\ p[1] = "1" /\ p[2] \in {"0", "1", "2"}
    \/ Len(p) = 2 /\ p[1] = "0" /\ IsDigit(p[2]) /\ p[2] # "0"
    \/ Len(p) = 1 /\ IsDigit(p[1]) /\ p[1] # "0"

\* the strptime directive %d: 3[0-1]|[1-2]\d|0[1-9]|[1-9]| [1-9]
IsDayPart(p) ==
    \/ Len(p) = 2 /\ p[1] = "3" /\ p[2] \in {"0", "1"}
    \/ Len(p) = 2 /\ p[1] \in {"1", "2"} /\ IsDigit(p[2])
    \/ Len(p) = 2 /\ p[1] \in {"0", " "} /\ IsDigit(p[2]) /\ p[2] # "0"
    \/ Len(p) = 1 /\ IsDigit(p[1]) /\ p[1] # "0"

\* the value of a %m or %d match
PartVal(p) == NumVal(SelectSeq(p, IsDigit))

\* the strptime directive %Y: \d\d\d\d, and datetime wants a year >= 1
IsYearPart(p) == Len(p) = 4 /\ AllDigits(p) /\ NumVal(p) >= 1

\* datetime.strptime(chars, "%m/%Y"): midnight of the first of the month, or
\* NoDate where it raises ValueError
StrptimeMonthYear(chars) ==
    LET n == Len(chars)
    IN  IF /\ n \in {6, 7}
           /\ chars[n - 4] = "/"
           /\ IsMonthPart(SubSeq(chars, 1, n - 5))
           /\ IsYearPart(SubSeq(chars, n - 3, n))
        THEN DayNumber(NumVal(SubSeq(chars, n - 3, n)), PartVal(SubSeq(chars, 1, n - 5)), 1)
        ELSE NoDate

\* datetime.strptime(chars, "%m/%d/%Y"), or NoDate where it raises ValueError
StrptimeMonthDayYear(chars) ==
    LET n == Len(chars)
        ok(i) == /\ i \in 2..3 /\ n - 4 > i + 1 /\ n - 4 <= i + 3
                 /\ chars[i] = "/" /\ chars[n - 4] = "/"
                 /\ IsMonthPart(SubSeq(chars, 1, i - 1))
                 /\ IsDayPart(SubSeq(chars, i + 1, n - 5))
                 /\ IsYearPart(SubSeq(chars, n - 3, n))
                 /\ PartVal(SubSeq(chars, i + 1, n - 5))
                        <= DaysInMonth(NumVal(SubSeq(chars, n - 3, n)),
                                       PartVal(SubSeq(chars, 1, i - 1)))
    IN  IF n >= 8 /\ \E i \in 2..3 : ok(i)
        THEN LET i == CHOOSE j \in 2..3 : ok(j)
             IN  DayNumber(NumVal(SubSeq(chars, n - 3, n)),
                           PartVal(SubSeq(chars, 1, i - 1)),
                           PartVal(SubSeq(chars, i + 1, n - 5)))
        ELSE NoDate

----------------------------------------------------------------------------
(* ErrorDetector: the report-level rules *)

\* timedelta(days=7*365) and timedelta(days=2*365)
SevenYearsDays == 7 * 365

TwoYearsDays == 2 * 365

\* a slip in line 345: the key of another table entry
OutdatedItemWrongKey(account, clock) ==
    LET date_opened == Get(account, "date_opened", PyStr(<<>>))
        opened_day == IF date_opened.t = "str"
                      THEN StrptimeMonthYear(date_opened.s) ELSE NoDate
    IN  IF /\ Flag(account, "is_negative")
           /\ Truthy(date_opened)
           /\ opened_day # NoDate
           /\ Before(DateTime(opened_day, 0), MinusDays(clock, SevenYearsDays))
        THEN <<_create_error("outdated_bankruptcy", account,
                   Description("Negative item older than 7 years (opened %)",
                               <<date_opened>>))>>
        ELSE <<>>

\* a slip in line 343: <= for <, so that the threshold day itself counts
OutdatedItemAtThreshold(account, clock) ==
    LET date_opened == Get(account, "date_opened", PyStr(<<>>))
        opened_day == IF date_opened.t = "str"
                      THEN StrptimeMonthYear(date_opened.s) ELSE NoDate
    IN  IF /\ Flag(account, "is_negative")
           /\ Truthy(date_opened)
           /\ opened_day # NoDate
           /\ ~Before(MinusDays(clock, SevenYearsDays), DateTime(opened_day, 0))
        THEN <<_create_error("outdated_negative", account,
                   Description("Negative item older than 7 years (opened %)",
                               <<date_opened>>))>>
        ELSE <<>>

\* the body of the loop of _check_outdated_items; a bare except swallows
\* whatever strptime raises (ValueError on a mismatch, TypeError on a non-string)
OutdatedItem(account, clock) ==
    LET date_opened == Get(account, "date_opened", PyStr(<<>>))
        opened_day == IF date_opened.t = "str"
                      THEN StrptimeMonthYear(date_opened.s) ELSE NoDate
    IN  IF /\ Flag(account, "is_negative")
           /\ Truthy(date_opened)
           /\ opened_day # NoDate
           /\ Before(DateTime(opened_day, 0), MinusDays(clock, SevenYearsDays))
        THEN <<_create_error("outdated_negative", account,
                   Description("Negative item older than 7 years (opened %)",
                               <<date_opened>>))>>
        ELSE <<>>

_check_outdated_items(accounts, clock) ==
    Flatten([i \in 1..Len(accounts) |-> OutdatedItem(accounts[i], clock)])

\* the body of the loop of _check_inquiries
InquiryItem(inquiry, clock) ==
    LET inquiry_date == Get(inquiry, "inquiry_date", PyStr(<<>>))
        date == IF inquiry_date.t = "str"
                THEN StrptimeMonthDayYear(inquiry_date.s) ELSE NoDate
    IN  IF /\ Get(inquiry, "type", "None") = "hard"
           /\ Truthy(inquiry_date)
           /\ date # NoDate
           /\ Before(DateTime(date, 0), MinusDays(clock, TwoYearsDays))
        THEN <<[type |-> "outdated_inquiry",
                description |-> Description("Hard inquiry from % exceeds 2-year limit",
                                            <<inquiry_date>>),
                severity |-> "medium",
                fcra_section |-> "605(a)(3)",
                estimated_impact |-> 5,
                inquiry |-> inquiry]>>
        ELSE <<>>

_check_inquiries(inquiries, clock) ==
    Flatten([i \in 1..Len(inquiries) |-> InquiryItem(inquiries[i], clock)])

\* the body of the loop of _check_public_records
PublicRecordItem(record) ==
    IF Get(record, "type", "None") = "tax_lien"
    THEN <<[type |-> "tax_lien_ncap",
            description |-> Description("Tax lien may be eligible for NCAP removal", <<>>),
            severity |-> "high",
            fcra_section |-> "NCAP 2018",
            estimated_impact |-> 30,
            record |-> record]>>
    ELSE <<>>

_check_public_records(records) ==
    Flatten([i \in 1..Len(records) |-> PublicRecordItem(records[i])])

----------------------------------------------------------------------------
(* ErrorDetector: the aggregates *)

Severities == {"critical", "high", "medium", "low"}

_summarize_errors(errors) ==
    LET sevs == Severities \cup {Get(errors[i], "severity", "low") : i \in 1..Len(errors)}
    IN  [sev \in sevs |->
            Len(SelectSeq(errors, LAMBDA e : Get(e, "severity", "low") = sev))]

\* the sort key (priority, -estimated_impact)
\* a slip in the key: the impact ascending
SortKeyImpactAscending(error) ==
    <<Get(error, "priority", 5), Get(error, "estimated_impact", 0)>>

SortKey(error) == <<Get(error, "priority", 5), 0 - Get(error, "estimated_impact", 0)>>

\* a < b for two sort keys (tuples compare lexicographically)
KeyLess(a, b) == a[1] < b[1] \/ (a[1] = b[1] /\ a[2] < b[2])

\* sorted() is stable: an element goes after every element whose key is not greater
RECURSIVE InsertByKey(_, _)
InsertByKey(sorted, e) ==
    IF sorted = <<>> THEN <<e>>
    ELSE IF KeyLess(SortKey(e), SortKey(Head(sorted)))
         THEN <<e>> \o sorted
         ELSE <<Head(sorted)>> \o InsertByKey(Tail(sorted), e)

RECURSIVE SortedByKey(_)
SortedByKey(q) ==
    IF q = <<>> THEN <<>>
    ELSE InsertByKey(SortedByKey(SubSeq(q, 1, Len(q) - 1)), q[Len(q)])

_rank_by_priority(errors) == SortedByKey(errors)

\* "Max 15 disputes"
MaxDisputes == 15

\* q[:n]
Take(q, n) == SubSeq(q, 1, IF Len(q) < n THEN Len(q) ELSE n)

\* q[n:]
Drop(q, n) == SubSeq(q, n + 1, Len(q))

\* a value that .get() returns as None because the key is absent
IntOrNone(d, key) == IF key \in DOMAIN d THEN PyInt(d[key]) ELSE PyNone

_generate_dispute_recommendations(errors) ==
    LET ranked == Take(_rank_by_priority(errors), MaxDisputes)
    IN  [i \in 1..Len(ranked) |->
            [rank |-> i,
             error_type |-> Get(ranked[i], "type", "None"),
             creditor |-> GetOrNone(Get(ranked[i], "account", <<>>), "creditor_name"),
             strategy |-> Get(ranked[i], "dispute_strategy", "None"),
             priority |-> IntOrNone(ranked[i], "priority"),
             estimated_impact |-> IntOrNone(ranked[i], "estimated_impact"),
             legal_basis |-> Description("FCRA sect. %", <<Get(ranked[i], "fcra_section", "None")>>)]]

----------------------------------------------------------------------------
(* ErrorDetector.analyze_report *)

\* the outcome of a call that raised
Raised == [raised |-> TRUE]

analyze_report(report_data, clock) ==
    LET accounts == Get(report_data, "accounts", <<>>)
        parsed_data == Get(report_data, "parsed_data", <<>>)
        per_account == [i \in 1..Len(accounts) |-> _analyze_account(accounts[i])]
        errors == Flatten([i \in 1..Len(accounts) |-> per_account[i].errors])
                  \o _check_outdated_items(accounts, clock)
                  \o _check_inquiries(Get(parsed_data, "inquiries", <<>>), clock)
                  \o _check_public_records(Get(parsed_data, "public_records", <<>>))
        discrepancies == _check_cross_bureau_discrepancies(accounts)
    IN  IF \E i \in 1..Len(accounts) : per_account[i].raised
        THEN Raised
        ELSE [raised |-> FALSE,
              total_errors |-> Len(errors),
              total_discrepancies |-> Len(discrepancies),
              total_estimated_impact |->
                  SumSeq([i \in 1..Len(errors) |-> Get(errors[i], "estimated_impact", 0)]),
              errors |-> errors,
              discrepancies |-> discrepancies,
              error_summary |-> _summarize_errors(errors),
              priority_ranking |-> _rank_by_priority(errors),
              recommended_disputes |-> _generate_dispute_recommendations(errors)]

----------------------------------------------------------------------------
(* The inputs of the detection model *)

\* bounds of the model
MaxAccounts == 2

MaxInquiries == 1

MaxRecords == 1

MaxBureauRecords == 3

MaxTicks == 1

\* every sequence over S of length at most n
SeqsUpTo(S, n) == UNION {[1..k -> S] : k \in 0..n}

\* marks a key left out of a generated dict
Absent == [t |-> "absent", n |-> 0, s |-> <<>>]

\* base with the keys of f set to f's values, the Absent ones left out
WithFields(base, f) ==
    [k \in (DOMAIN base \ DOMAIN f) \cup {j \in DOMAIN f : f[j] # Absent} |->
        IF k \in DOMAIN f THEN f[k] ELSE base[k]]

N_4111 == <<"4","1","1","1","1","1","1","1">>
N_5500 == <<"5","5","0","0","2","2","2","2">>
D_01_2019 == <<"0","1","/","2","0","1","9">>
D_12_31_2023 == <<"1","2","/","3","1","/","2","0","2","3">>

\* the record of the end-to-end scenario: one account, four fields
ABCBank ==
    [creditor_name |-> PyStr(S_ABC_Bank), current_balance |-> PyInt(1200),
     credit_limit |-> PyInt(1000), account_status |-> PyStr(S_open)]

\* an account that breaks no rule
Compliant ==
    [creditor_name |-> PyStr(S_ABC_Bank), account_number |-> PyStr(N_4111),
     account_type |-> PyStr(S_mortgage), current_balance |-> PyInt(500),
     credit_limit |-> PyInt(1000), account_status |-> PyStr(S_open)]

\* balance, limit, status and type vary
LimitFamily ==
    {WithFields(Compliant, [current_balance |-> b, credit_limit |-> l,
                            account_status |-> PyStr(st), account_type |-> PyStr(ty)]) :
        b \in {PyNone, PyInt(0), PyInt(500), PyInt(1000), PyInt(1200)},
        l \in {Absent, PyNone, PyInt(0), PyInt(1000)},
        st \in {S_open, S_Open, S_closed},
        ty \in {S_credit_card, S_Revolving, S_mortgage}}

\* the late-payment counters vary: absent, null, 0, 1, 2
LateFamily ==
    {WithFields(Compliant, [late_30_count |-> a, late_60_count |-> b, late_90_count |-> c]) :
        a \in {Absent, PyNone, PyInt(0), PyInt(1), PyInt(2)},
        b \in {Absent, PyNone, PyInt(0), PyInt(1), PyInt(2)},
        c \in {Absent, PyNone, PyInt(0), PyInt(1), PyInt(2)}}

\* records of one account as three bureaus may report it
BureauFamily ==
    {WithFields(Compliant, [account_number |-> PyStr(N_4111), current_balance |-> PyInt(b),
                            account_status |-> PyStr(st)]) :
        b \in {500, 750}, st \in {S_open, S_closed}}
    \cup {WithFields(Compliant, [account_number |-> PyStr(N_5500), current_balance |-> PyInt(b)]) :
            b \in {500, 750}}
    \cup {WithFields(Compliant, [account_number |-> PyStr(<<>>), current_balance |-> PyInt(750)]),
          WithFields(Compliant, [account_number |-> PyNone, current_balance |-> PyInt(750)])}

\* an open credit card without a limit: missing_credit_limit (medium)
NoLimitCard ==
    WithFields(Compliant, [account_number |-> PyStr(N_5500), account_type |-> PyStr(S_credit_card),
                           credit_limit |-> PyInt(0)])

\* closed with a balance, negative, authorized user, opened January 2019
OldNegative ==
    WithFields(Compliant, [account_status |-> PyStr(S_Closed), is_negative |-> PyTrue,
                           is_authorized_user |-> PyTrue, date_opened |-> PyStr(D_01_2019)])

\* a medical collection with a 90-day late and no 30- or 60-day late
MedicalCollection ==
    WithFields(Compliant, [creditor_name |-> PyStr(S_City_Hospital), is_collection |-> PyTrue,
                           late_90_count |-> PyInt(1)])

\* closed, paid and other statuses with positive, negative, zero and absent
\* balances, collection or not
ClosedFamily ==
    {WithFields(Compliant, [current_balance |-> b, account_status |-> PyStr(st),
                            is_collection |-> c]) :
        b \in {Absent, PyNone, PyInt(0), PyInt(500), PyInt(0 - 50)},
        st \in {S_closed, S_Closed, S_paid, S_unpaid, S_open},
        c \in {Absent, PyFalse, PyTrue}}

\* malformed records: a null account_status, a non-numeric balance, a null
\* creditor_name on a collection account
NullStatus == WithFields(ABCBank, [account_status |-> PyNone])

TextBalance == WithFields(ABCBank, [current_balance |-> PyStr(S_abc)])

NullCreditor == WithFields(Compliant, [creditor_name |-> PyNone, is_collection |-> PyTrue])

MalformedFamily == {NullStatus, TextBalance, NullCreditor}

D_1_2019 == <<"1","/","2","0","1","9">>
D_12_2018 == <<"1","2","/","2","0","1","8">>
D_02_2019 == <<"0","2","/","2","0","1","9">>
D_2019_01 == <<"2","0","1","9","-","0","1">>
D_01_15_2019 == <<"0","1","/","1","5","/","2","0","1","9">>

\* the negative flag and the open date vary: absent, null, empty, a month and
\* year before, at and after the threshold, other date forms, a number
AgeFamily ==
    {WithFields(Compliant, [is_negative |-> neg, date_opened |-> d]) :
        neg \in {Absent, PyFalse, PyTrue},
        d \in {Absent, PyNone, PyInt(2019), PyStr(<<>>), PyStr(D_01_2019), PyStr(D_1_2019),
               PyStr(D_12_2018), PyStr(D_02_2019), PyStr(D_2019_01), PyStr(D_01_15_2019)}}

AccountPool == {ABCBank, NoLimitCard, OldNegative, MedicalCollection, NullStatus, TextBalance}

InquiryPool ==
    {[creditor_name |-> PyStr(S_ABC_Bank), inquiry_date |-> PyStr(D_12_31_2023), type |-> "hard"],
     [creditor_name |-> PyStr(S_ABC_Bank), inquiry_date |-> PyStr(D_12_31_2023), type |-> "soft"]}

RecordPool ==
    {[type |-> "tax_lien", details |-> PyStr(S_abc), status |-> "active"],
     [type |-> "bankruptcy", details |-> PyStr(S_abc), status |-> "active"]}

\* one account and nothing else
SingleReports ==
    {[accounts |-> <<a>>] :
        a \in {ABCBank} \cup LimitFamily \cup LateFamily \cup ClosedFamily \cup MalformedFamily
               \cup AgeFamily}

\* the records of several bureaus
BureauReports == {[accounts |-> q] : q \in SeqsUpTo(BureauFamily, MaxBureauRecords)}

D_01_15_2020 == <<"0","1","/","1","5","/","2","0","2","0">>
D_01d15d2020 == <<"0","1","-","1","5","-","2","0","2","0">>
D_01_15_20 == <<"0","1","/","1","5","/","2","0">>
D_12_30_2024 == <<"1","2","/","3","0","/","2","0","2","4">>
D_2020_01_15 == <<"2","0","2","0","-","0","1","-","1","5">>

\* the date pattern of _extract_inquiries, \d{1,2}[/-]\d{1,2}[/-]\d{2,4}, on a
\* whole token; SepAt gives the places of the two separators
SepAt(chars) ==
    {p \in (1..Len(chars)) \X (1..Len(chars)) :
        /\ p[1] < p[2]
        /\ chars[p[1]] \in {"/", "-"} /\ chars[p[2]] \in {"/", "-"}
        /\ p[1] - 1 \in 1..2 /\ AllDigits(SubSeq(chars, 1, p[1] - 1))
        /\ p[2] - p[1] - 1 \in 1..2 /\ AllDigits(SubSeq(chars, p[1] + 1, p[2] - 1))
        /\ Len(chars) - p[2] \in 2..4 /\ AllDigits(SubSeq(chars, p[2] + 1, Len(chars)))}

IsDatePattern(chars) == SepAt(chars) # {}

\* _extract_inquiries on the text captured after the inquiries heading, given
\* as its pairs of a creditor name and the token after it: a hard inquiry for
\* every pair whose token matches the date pattern, the token kept as written
_extract_inquiries(lines) ==
    LET hits == SelectSeq(lines, LAMBDA l : IsDatePattern(l.date))
    IN  [i \in 1..Len(hits) |->
            [creditor_name |-> PyStr(hits[i].creditor), inquiry_date |-> PyStr(hits[i].date),
             type |-> "hard"]]

\* the pairs an inquiries text may hold
InquiryLines ==
    {[creditor |-> S_ABC_Bank, date |-> d] :
        d \in {D_12_31_2023, D_01_15_2020, D_01d15d2020, D_01_15_20, D_12_30_2024,
               D_2020_01_15}}

\* reports whose inquiries are those extracted from a document
ExtractedReports ==
    {[accounts |-> <<>>,
      parsed_data |-> [inquiries |-> _extract_inquiries(b), public_records |-> <<>>]] :
        b \in SeqsUpTo(InquiryLines, MaxInquiries)}

\* accounts, inquiries and public records
FullReports ==
    {[accounts |-> q, parsed_data |-> [inquiries |-> iq, public_records |-> pr]] :
        q \in SeqsUpTo(AccountPool, MaxAccounts),
        iq \in SeqsUpTo(InquiryPool, MaxInquiries),
        pr \in SeqsUpTo(RecordPool, MaxRecords)}

Reports == SingleReports \cup BureauReports \cup FullReports \cup ExtractedReports

\* the clock: midnight of 2025-12-30, 7*365 days after 2019-01-01 and 2*365
\* days after 2023-12-31
StartClock == DateTime(DayNumber(2025, 12, 30), 0)

SecondsPerDay == 24 * 60 * 60

\* the clock advances by a second or by a day
TickSeconds == {1, SecondsPerDay}

Advance(clock, secs) ==
    DateTime(clock.day + (clock.tod + secs) \div SecondsPerDay,
             (clock.tod + secs) % SecondsPerDay)

----------------------------------------------------------------------------
(* The state machine *)

NoReport == [no_report |-> TRUE]

NotRun == [not_run |-> TRUE]

NotBuilt == [not_built |-> TRUE]

NotExtracted == [not_extracted |-> TRUE]

NotUploaded == [not_uploaded |-> TRUE]

NoCalls == <<>>

NoDisputes == [no_table |-> TRUE]

Init ==
    /\ report = NoReport
    /\ now = StartClock
    /\ ticks = 0
    /\ run1 = NotRun
    /\ run2 = NotRun
    /\ strategy = NotBuilt
    /\ extraction = NotExtracted
    /\ upload = NotUploaded
    /\ calls = NoCalls
    /\ disputes = NoDisputes

\* a report_data is handed over for analysis (the analyze route builds it from
\* the stored rows)
StoreReport ==
    /\ report = NoReport
    /\ \E r \in Reports : report' = r
    /\ UNCHANGED <<now, ticks, run1, run2, strategy, extraction, upload, calls, disputes>>

\* analyze_report(report_data): the clock is read inside the call
Analyze ==
    /\ report # NoReport
    /\ run2 = NotRun
    /\ LET call == [at |-> now, out |-> analyze_report(report, now)]
       IN  IF run1 = NotRun
           THEN run1' = call /\ UNCHANGED run2
           ELSE run2' = call /\ UNCHANGED run1
    /\ UNCHANGED <<report, now, ticks, strategy, extraction, upload, calls, disputes>>

\* time passes
Tick ==
    /\ ticks < MaxTicks
    /\ run2 = NotRun
    /\ \E secs \in TickSeconds : now' = Advance(now, secs)
    /\ ticks' = ticks + 1
    /\ UNCHANGED <<report, run1, run2, strategy, extraction, upload, calls, disputes>>

Next == StoreReport \/ Analyze \/ Tick

Spec == Init /\ [][Next]_vars

----------------------------------------------------------------------------
(* What the claims speak about *)

Done(run) == run # NotRun

Returned(run) == run # NotRun /\ ~run.out.raised

NumberKeys == {"current_balance", "credit_limit", "late_30_count", "late_60_count",
               "late_90_count"}

StringKeys == {"account_status", "account_type", "creditor_name"}

\* a record of the data model: where present, amounts and counters are numbers
\* or null and status, type and creditor name are strings
WellFormedAccount(a) ==
    /\ \A k \in DOMAIN a \cap NumberKeys : a[k].t \in {"int", "None"}
    /\ \A k \in DOMAIN a \cap StringKeys : a[k].t = "str"

AccountsOf(r) == Get(r, "accounts", <<>>)

WellFormedReport(r) == \A i \in 1..Len(AccountsOf(r)) : WellFormedAccount(AccountsOf(r)[i])

\* the account reference a violation carries
RefOf(a) ==
    [creditor_name |-> GetOrNone(a, "creditor_name"),
     account_number |-> GetOrNone(a, "account_number"),
     account_type |-> GetOrNone(a, "account_type")]

\* the records of the report that a violation's reference cannot tell from record i
Twins(r, i) ==
    {j \in 1..Len(AccountsOf(r)) : RefOf(AccountsOf(r)[j]) = RefOf(AccountsOf(r)[i])}

\* how many violations of a type refer to a reference
CountFor(errors, ty, ref) ==
    Cardinality({k \in 1..Len(errors) :
                    /\ errors[k].type = ty
                    /\ "account" \in DOMAIN errors[k]
                    /\ errors[k].account = ref})

IsNumber(a, key) == key \in DOMAIN a /\ a[key].t = "int"

\* credit_limit > 0 and current_balance > credit_limit
OverLimit(a) ==
    /\ IsNumber(a, "credit_limit") /\ IsNumber(a, "current_balance")
    /\ a.credit_limit.n > 0 /\ a.current_balance.n > a.credit_limit.n

\* credit_limit > 0 and current_balance <= credit_limit
WithinLimit(a) ==
    /\ IsNumber(a, "credit_limit") /\ IsNumber(a, "current_balance")
    /\ a.credit_limit.n > 0 /\ a.current_balance.n <= a.credit_limit.n

\* a late-payment counter, absent and null read as 0
Counter(a, key) == IF IsNumber(a, key) THEN a[key].n ELSE 0

\* a 90-day late while the 30- or the 60-day bucket is empty
LatePattern(a) ==
    /\ Counter(a, "late_90_count") > 0
    /\ (Counter(a, "late_30_count") = 0 \/ Counter(a, "late_60_count") = 0)

----------------------------------------------------------------------------
(* C1 *)

\* C1: in a returned analysis of a report of well-formed records, every account
\* with credit_limit > 0 and current_balance > credit_limit has exactly one
\* balance_exceeds_limit violation referring to it (one for each record sharing
\* its reference), and an account with credit_limit > 0 and current_balance <=
\* credit_limit has neither a balance_exceeds_limit nor a missing_credit_limit
\* violation.
C1_BalanceLimitRule ==
    (Done(run1) /\ WellFormedReport(report)) =>
        /\ ~run1.out.raised
        /\ \A i \in 1..Len(AccountsOf(report)) :
            LET accounts == AccountsOf(report)
                ref == RefOf(accounts[i])
                twins == Twins(report, i)
            IN  /\ (\A j \in twins : OverLimit(accounts[j])) =>
                       CountFor(run1.out.errors, "balance_exceeds_limit", ref)
                           = Cardinality(twins)
                /\ (\A j \in twins : WithinLimit(accounts[j])) =>
                       /\ CountFor(run1.out.errors, "balance_exceeds_limit", ref) = 0
                       /\ CountFor(run1.out.errors, "missing_credit_limit", ref) = 0

\* an analysed report holding an account over its limit and one within it,
\* the latter with a balance equal to its limit
C1_Witness ==
    /\ Returned(run1) /\ WellFormedReport(report)
    /\ \E i \in 1..Len(AccountsOf(report)) : OverLimit(AccountsOf(report)[i])
    /\ run1.out.total_errors > 0

\* an analysed account whose balance equals its positive limit
C1_WitnessAtLimit ==
    /\ Returned(run1) /\ WellFormedReport(report)
    /\ \E i \in 1..Len(AccountsOf(report)) :
          /\ WithinLimit(AccountsOf(report)[i])
          /\ AccountsOf(report)[i].current_balance = AccountsOf(report)[i].credit_limit

----------------------------------------------------------------------------
(* C2 *)

\* the analysis of a report of well-formed records returns, and an account has
\* one impossible_late_pattern violation (one for each record sharing its
\* reference) when it shows the pattern and none when it does not
C2_EveryAccount ==
    (Done(run1) /\ WellFormedReport(report)) =>
        /\ ~run1.out.raised
        /\ \A i \in 1..Len(AccountsOf(report)) :
            LET accounts == AccountsOf(report)
                ref == RefOf(accounts[i])
                twins == Twins(report, i)
            IN  /\ (\A j \in twins : LatePattern(accounts[j])) =>
                       CountFor(run1.out.errors, "impossible_late_pattern", ref)
                           = Cardinality(twins)
                /\ (\A j \in twins : ~LatePattern(accounts[j])) =>
                       CountFor(run1.out.errors, "impossible_late_pattern", ref) = 0

\* an analysed account with late_90_count = 1 beside a null 30-day counter and
\* a 60-day counter of 1: one violation
C2_Witness ==
    /\ Returned(run1)
    /\ \E i \in 1..Len(AccountsOf(report)) :
          LET a == AccountsOf(report)[i]
          IN  /\ Get(a, "late_90_count", Absent) = PyInt(1)
              /\ Get(a, "late_30_count", Absent) = PyNone
              /\ Get(a, "late_60_count", Absent) = PyInt(1)
    /\ Len(SelectType(run1.out.errors, "impossible_late_pattern")) = 1

\* the two cases the claim names: (90=1, 30=0, 60=0) gives one, (1, 1, 1) none
C2_NamedCases ==
    (Returned(run1) /\ Len(AccountsOf(report)) = 1) =>
        LET a == AccountsOf(report)[1]
            c30 == Get(a, "late_30_count", Absent)
            c60 == Get(a, "late_60_count", Absent)
            c90 == Get(a, "late_90_count", Absent)
            n == Len(SelectType(run1.out.errors, "impossible_late_pattern"))
        IN  /\ (c90 = PyInt(1) /\ c30 = PyInt(0) /\ c60 = PyInt(0)) => n = 1
            /\ (c90 = PyInt(1) /\ c30 = PyInt(1) /\ c60 = PyInt(1)) => n = 0

\* C2: _analyze_account emits exactly one impossible_late_pattern violation for
\* an account when late_90_count > 0 and (late_30_count = 0 or late_60_count = 0),
\* absent and null counters read as 0, and none otherwise; (90=1, 30=0, 60=0)
\* gives exactly one and (30=1, 60=1, 90=1) gives none.
C2_LatePatternRule == C2_EveryAccount /\ C2_NamedCases

----------------------------------------------------------------------------
(* C3 *)

\* the positions of the records holding account number num
Holders(r, num) ==
    {i \in 1..Len(AccountsOf(r)) : GetOrNone(AccountsOf(r)[i], "account_number") = num}

\* the present, non-empty account numbers of a report
NumbersOf(r) ==
    {GetOrNone(AccountsOf(r)[i], "account_number") : i \in 1..Len(AccountsOf(r))}
        \ {PyNone, PyStr(<<>>)}

\* the values of a field over the records holding num, in report order
ValuesOf(r, num, key, default) ==
    LET held == SelectSeq(AccountsOf(r),
                          LAMBDA a : GetOrNone(a, "account_number") = num)
    IN  [i \in 1..Len(held) |-> Get(held[i], key, default)]

AllEqual(values) == \A i, j \in 1..Len(values) : values[i] = values[j]

\* the discrepancies reported for num whose description starts with text
Reported(discrepancies, num, text) ==
    SelectSeq(discrepancies,
              LAMBDA d : d.account_number = num /\ d.description.text = text)

\* C3: for every list of account records, _check_cross_bureau_discrepancies
\* emits, for each non-empty account number shared by at least 2 records, exactly
\* one cross_bureau_discrepancy if their balances are not all equal and exactly
\* one more if their statuses are not all equal, each description listing the
\* values of every record of the group; it emits nothing for a group whose
\* balances and statuses all match, for a number held by a single record, or for
\* records with an empty account number.
C3_CrossBureauDiscrepancies ==
    (Done(run1) /\ WellFormedReport(report)) =>
        /\ ~run1.out.raised
        /\ \A k \in 1..Len(run1.out.discrepancies) :
              /\ run1.out.discrepancies[k].type = "cross_bureau_discrepancy"
              /\ run1.out.discrepancies[k].account_number \in NumbersOf(report)
              /\ run1.out.discrepancies[k].description.text
                     \in {"Balance varies across bureaus: %", "Status varies across bureaus: %"}
        /\ run1.out.total_discrepancies = Len(run1.out.discrepancies)
        /\ \A num \in NumbersOf(report) :
              LET balances == ValuesOf(report, num, "current_balance", PyInt(0))
                  statuses == ValuesOf(report, num, "account_status", PyStr(<<>>))
                  shared == Cardinality(Holders(report, num)) >= 2
                  on_balance == Reported(run1.out.discrepancies, num,
                                         "Balance varies across bureaus: %")
                  on_status == Reported(run1.out.discrepancies, num,
                                        "Status varies across bureaus: %")
              IN  /\ Len(on_balance) = IF shared /\ ~AllEqual(balances) THEN 1 ELSE 0
                  /\ Len(on_status) = IF shared /\ ~AllEqual(statuses) THEN 1 ELSE 0
                  /\ \A k \in 1..Len(on_balance) : on_balance[k].description.args = balances
                  /\ \A k \in 1..Len(on_status) : on_status[k].description.args = statuses

\* three records of one number that differ in balance and in status, beside
\* which the analysis reports one discrepancy for each field
C3_Witness ==
    /\ Returned(run1)
    /\ \E num \in NumbersOf(report) :
          /\ Cardinality(Holders(report, num)) = 3
          /\ ~AllEqual(ValuesOf(report, num, "current_balance", PyInt(0)))
          /\ ~AllEqual(ValuesOf(report, num, "account_status", PyStr(<<>>)))
    /\ Len(run1.out.discrepancies) = 2

\* records with an empty number and a number held once, and no discrepancy
C3_WitnessNone ==
    /\ Returned(run1)
    /\ Len(AccountsOf(report)) = 3
    /\ \E i \in 1..3 : GetOrNone(AccountsOf(report)[i], "account_number") = PyStr(<<>>)
    /\ \E num \in NumbersOf(report) : Cardinality(Holders(report, num)) = 1
    /\ run1.out.discrepancies = <<>>

----------------------------------------------------------------------------
(* C7 *)

\* the report of the end-to-end scenario, with or without an empty parsed_data
ScenarioReports ==
    {[accounts |-> <<ABCBank>>],
     [accounts |-> <<ABCBank>>, parsed_data |-> [inquiries |-> <<>>, public_records |-> <<>>]]}

\* C7: analyzing a report whose only content is one account with creditor ABC
\* Bank, balance 1200, credit limit 1000 and status open returns exactly one
\* violation: type balance_exceeds_limit, estimated_impact 10, severity high,
\* priority 2; total_errors is 1 and total_estimated_impact is 10.
C7_EndToEndScenario ==
    (Done(run1) /\ report \in ScenarioReports) =>
        /\ ~run1.out.raised
        /\ Len(run1.out.errors) = 1
        /\ run1.out.errors[1].type = "balance_exceeds_limit"
        /\ run1.out.errors[1].estimated_impact = 10
        /\ run1.out.errors[1].severity = "high"
        /\ run1.out.errors[1].priority = 2
        /\ run1.out.errors[1].account.creditor_name = PyStr(S_ABC_Bank)
        /\ run1.out.total_errors = 1
        /\ run1.out.total_estimated_impact = 10

\* the scenario's report, analysed
C7_Witness == Returned(run1) /\ report = [accounts |-> <<ABCBank>>]

----------------------------------------------------------------------------
(* C6 *)

\* critical before high before medium before low
SeverityRank(severity) ==
    CASE severity = "critical" -> 1
      [] severity = "high" -> 2
      [] severity = "medium" -> 3
      [] OTHER -> 4

Occurrences(q, e) == Cardinality({i \in 1..Len(q) : q[i] = e})

IsPermutation(p, q) ==
    /\ Len(p) = Len(q)
    /\ \A i \in 1..Len(q) : Occurrences(p, q[i]) = Occurrences(q, q[i])

\* C6: the priority_ranking returned by analyze_report is a permutation of the
\* returned violations in which no violation precedes a violation of strictly
\* higher severity and, among violations of equal severity, the one with the
\* larger estimated impact comes first.
C6_RankingBySeverity ==
    Returned(run1) =>
        LET ranking == run1.out.priority_ranking
        IN  /\ IsPermutation(ranking, run1.out.errors)
            /\ \A i, j \in 1..Len(ranking) :
                  i < j =>
                    /\ SeverityRank(ranking[i].severity) <= SeverityRank(ranking[j].severity)
                    /\ (ranking[i].severity = ranking[j].severity =>
                           ranking[i].estimated_impact >= ranking[j].estimated_impact)

----------------------------------------------------------------------------
(* C8 *)

\* the violation types that depend on the age of an item
AgeBased == {"outdated_negative", "outdated_inquiry"}

Timeless(errors) == SelectSeq(errors, LAMBDA e : e.type \notin AgeBased)

----------------------------------------------------------------------------
(* C10 *)

MalformedAt(r) == {i \in 1..Len(AccountsOf(r)) : ~WellFormedAccount(AccountsOf(r)[i])}

\* the report without its malformed account records
WithoutMalformed(r) ==
    [k \in DOMAIN r |->
        IF k = "accounts" THEN SelectSeq(r.accounts, WellFormedAccount) ELSE r[k]]

\* C10: analyze_report returns normally for a report that holds one malformed
\* account record beside well-formed records, and every violation of every
\* other account, inquiry and public record is still reported.
C10_MalformedRecordIsolated ==
    (Done(run1) /\ Cardinality(MalformedAt(report)) = 1 /\ Len(AccountsOf(report)) > 1) =>
        /\ ~run1.out.raised
        /\ LET others == analyze_report(WithoutMalformed(report), run1.at).errors
           IN  \A k \in 1..Len(others) :
                  Occurrences(run1.out.errors, others[k]) >= Occurrences(others, others[k])

----------------------------------------------------------------------------
(* StrategyBuilder (dispute_engine/strategy_builder.py) *)

\* success_rate is kept in hundredths
strategies ==
    [factual_dispute |->
        [name |-> "Factual Dispute",
         description |-> "Direct dispute of factual inaccuracies",
         timeline_days |-> 30, success_rate |-> 65, intensity |-> "standard"],
     section_609 |->
        [name |-> "Section 609 Verification",
         description |-> "Request verification under FCRA sect. 609",
         timeline_days |-> 30, success_rate |-> 75, intensity |-> "standard"],
     section_605b |->
        [name |-> "Section 605B Identity Theft Block",
         description |-> "Block fraudulent accounts under FCRA sect. 605B",
         timeline_days |-> 4, success_rate |-> 90, intensity |-> "urgent"],
     debt_validation |->
        [name |-> "Debt Validation Request",
         description |-> "Request validation under FDCPA sect. 809",
         timeline_days |-> 30, success_rate |-> 70, intensity |-> "firm"],
     goodwill_adjustment |->
        [name |-> "Goodwill Adjustment",
         description |-> "Request goodwill deletion",
         timeline_days |-> 14, success_rate |-> 40, intensity |-> "polite"],
     fcra_violation |->
        [name |-> "FCRA Violation Challenge",
         description |-> "Challenge based on FCRA violations",
         timeline_days |-> 30, success_rate |-> 80, intensity |-> "aggressive"],
     method_of_verification |->
        [name |-> "Method of Verification Request",
         description |-> "Request verification method under FCRA sect. 611(a)(7)",
         timeline_days |-> 15, success_rate |-> 60, intensity |-> "firm"]]

_get_strategy_details(strategy_key) == Get(strategies, strategy_key, strategies["factual_dispute"])

\* a slip in lines 256-263: the strategy key looked at before the type
LetterTypeStrategyFirst(error) ==
    LET strategy_key == Get(error, "dispute_strategy", "factual_dispute")
        error_type == Get(error, "type", "")
    IN  IF strategy_key = "goodwill_adjustment" THEN "goodwill"
        ELSE IF error_type \in {"identity_theft", "not_my_account"} THEN "section_605b"
        ELSE IF error_type \in {"paid_collection", "medical_collection_ncap"} THEN "debt_validation"
        ELSE IF error_type \in {"unauthorized_inquiry"} THEN "fcra_violation"
        ELSE "bureau_dispute"

_get_letter_type(error) ==
    LET strategy_key == Get(error, "dispute_strategy", "factual_dispute")
        error_type == Get(error, "type", "")
    IN  IF error_type \in {"identity_theft", "not_my_account"} THEN "section_605b"
        ELSE IF error_type \in {"paid_collection", "medical_collection_ncap"} THEN "debt_validation"
        ELSE IF error_type \in {"unauthorized_inquiry"} THEN "fcra_violation"
        ELSE IF strategy_key = "goodwill_adjustment" THEN "goodwill"
        ELSE "bureau_dispute"

\* the keys of by_bureau, in the order the dict is built
BureauOrder == <<"equifax", "experian", "transunion">>

BureauNames == {BureauOrder[i] : i \in 1..Len(BureauOrder)}

\* "max 5 per bureau per round"
MaxPerRound == 5

\* a slip in line 123: the slice is one longer than the part line 124 removes
RoundSliceWide(queue) == Take(queue, MaxPerRound + 1)

\* by_bureau[bureau][:5]
RoundSlice(queue) == Take(queue, MaxPerRound)

\* one entry of current_round[bureau]
RoundItem(item) ==
    [error |-> item,
     strategy |-> _get_strategy_details(Get(item, "dispute_strategy", "factual_dispute")),
     letter_type |-> _get_letter_type(item),
     legal_basis |-> Get(item, "fcra_section", "623(a)(1)")]

\* the while loop of _organize_rounds
RECURSIVE RoundsFrom(_, _)
RoundsFrom(by_bureau, round_num) ==
    IF \A b \in BureauNames : by_bureau[b] = <<>> THEN <<>>
    ELSE LET current_round ==
                 [k \in {"round_number"} \cup BureauNames |->
                     IF k = "round_number" THEN round_num
                     ELSE LET items == RoundSlice(by_bureau[k])
                          IN  [j \in 1..Len(items) |-> RoundItem(items[j])]]
             rest == [b \in BureauNames |-> Drop(by_bureau[b], MaxPerRound)]
         IN  <<current_round>> \o RoundsFrom(rest, round_num + 1)

\* both branches of the loop over sorted_errors append the error to every bureau
_organize_rounds(errors, start_round) ==
    LET sorted_errors == SortedByKey(errors)
        by_bureau == [b \in BureauNames |-> sorted_errors]
    IN  RoundsFrom(by_bureau, start_round)

\* n written with two digits
TwoDigits(n) == <<Digits[((n \div 10) % 10) + 1], Digits[(n % 10) + 1]>>

\* strftime("%Y-%m-%d") for a year of four digits
Strftime(dt) ==
    LET date == CivilFromDays(dt.day)
    IN  TwoDigits(date.y \div 100) \o TwoDigits(date.y % 100) \o <<"-">>
        \o TwoDigits(date.m) \o <<"-">> \o TwoDigits(date.d)

\* "45 days between rounds"
RoundSpacingDays == 45

ResponseDays == 30

FollowUpDays == 7

\* a slip in line 146: rounds a month apart
SendDateMonthly(base_date, i) == PlusDays(base_date, i * ResponseDays)

\* base_date + timedelta(days=i * 45)
SendDate(base_date, i) == PlusDays(base_date, i * RoundSpacingDays)

\* a slip in line 151: the timeline numbered from 1 whatever the start round
TimelineFromOne(rounds, start_round, clock) ==
    [n \in 1..Len(rounds) |->
        LET i == n - 1
            send_date == SendDate(clock, i)
            response_due == PlusDays(send_date, ResponseDays)
            follow_up == PlusDays(response_due, FollowUpDays)
        IN  [round |-> 1 + i,
             send_date |-> Strftime(send_date),
             response_deadline |-> Strftime(response_due),
             follow_up_date |-> Strftime(follow_up),
             bureaus |-> SelectSeq(BureauOrder, LAMBDA b : rounds[n][b] # <<>>)]]

\* enumerate() counts from 0; base_date is the clock read inside the call
_create_timeline(rounds, start_round, clock) ==
    [n \in 1..Len(rounds) |->
        LET i == n - 1
            send_date == SendDate(clock, i)
            response_due == PlusDays(send_date, ResponseDays)
            follow_up == PlusDays(response_due, FollowUpDays)
        IN  [round |-> start_round + i,
             send_date |-> Strftime(send_date),
             response_deadline |-> Strftime(response_due),
             follow_up_date |-> Strftime(follow_up),
             bureaus |-> SelectSeq(BureauOrder, LAMBDA b : rounds[n][b] # <<>>)]]

_generate_guide ==
    [preparation |-> <<"Gather all credit reports", "Review error analysis",
                       "Print dispute letters", "Gather supporting documentation",
                       "Prepare certified mail envelopes">>,
     sending |-> <<"Send letters via certified mail with return receipt",
                   "Keep copies of everything sent", "Track delivery confirmation",
                   "Mark calendar for response deadline">>,
     waiting |-> <<"Wait 30 days for bureau response", "Check mail daily for responses",
                   "Do not dispute same items during waiting period">>,
     response |-> <<"Review all responses carefully", "Check for deleted/updated items",
                    "Verify any remaining errors", "Prepare next round if needed">>,
     follow_up |-> <<"If no response by day 37, send follow-up", "Document all outcomes",
                     "Update credit reports", "Plan next round strategy">>]

\* a slip in line 201: the impact summed over the three bureau queues
EstimatesPerBureau(errors) ==
    IF errors = <<>> THEN [best |-> 0, realistic |-> 0, conservative |-> 0]
    ELSE LET total_impact ==
                 3 * SumSeq([i \in 1..Len(errors) |-> Get(errors[i], "estimated_impact", 0)])
         IN  [best |-> total_impact,
              realistic |-> (total_impact * 6) \div 10,
              conservative |-> (total_impact * 3) \div 10]

\* int(total * 0.6) and int(total * 0.3) equal the integer quotients for every
\* total below 5000
_calculate_estimates(errors) ==
    IF errors = <<>> THEN [best |-> 0, realistic |-> 0, conservative |-> 0]
    ELSE LET total_impact ==
                 SumSeq([i \in 1..Len(errors) |-> Get(errors[i], "estimated_impact", 0)])
         IN  [best |-> total_impact,
              realistic |-> (total_impact * 6) \div 10,
              conservative |-> (total_impact * 3) \div 10]

\* each item starts with a ballot box sign
_generate_checklist ==
    <<"Review all error findings", "Print 3 copies of each letter",
      "Prepare certified mail (return receipt requested)",
      "Include copy of ID and proof of address",
      "Keep copies of everything for your records",
      "Mark calendar with response deadlines", "Set up mail tracking alerts",
      "Prepare follow-up calendar reminders">>

_generate_tips(round_number) ==
    <<"Never dispute online - use certified mail only",
      "Keep detailed records of all correspondence",
      "Don't dispute more than 5 items per bureau per round",
      "Wait for responses before sending next round">>
    \o (IF round_number > 1
        THEN <<"Escalate tone in follow-up rounds", "Reference previous dispute attempts",
               "Consider FCRA violation claims if ignored">>
        ELSE <<>>)
    \o (IF round_number >= 3
        THEN <<"Consider CFPB complaint if bureaus don't respond",
               "Document all violations for potential legal action",
               "Consult attorney for repeated non-compliance">>
        ELSE <<>>)

BUREAU_INFO ==
    [equifax |->
        [name |-> "Equifax Information Services LLC", address |-> "P.O. Box 740256",
         city_state_zip |-> "Atlanta, GA 30374-0256", phone |-> "1-800-685-1111",
         fax |-> "1-866-795-5599", website |-> "www.equifax.com",
         online_dispute |-> "https://www.equifax.com/personal/disputes/"],
     experian |->
        [name |-> "Experian", address |-> "P.O. Box 4500",
         city_state_zip |-> "Allen, TX 75013", phone |-> "1-888-397-3742",
         fax |-> "1-972-390-3630", website |-> "www.experian.com",
         online_dispute |-> "https://www.experian.com/disputes/main.html"],
     transunion |->
        [name |-> "TransUnion LLC", address |-> "P.O. Box 2000",
         city_state_zip |-> "Chester, PA 19016", phone |-> "1-800-916-8800",
         fax |-> "1-610-546-4603", website |-> "www.transunion.com",
         online_dispute |-> "https://www.transunion.com/credit-disputes"]]

build_strategy(errors, client_data, round_number, clock) ==
    LET rounds == _organize_rounds(errors, round_number)
    IN  [client_id |-> GetOrNone(client_data, "id"),
         current_round |-> round_number,
         total_rounds |-> Len(rounds),
         rounds |-> rounds,
         timeline |-> _create_timeline(rounds, round_number, clock),
         guide |-> _generate_guide,
         estimated_improvement |-> _calculate_estimates(errors),
         preparation_checklist |-> _generate_checklist,
         tips_and_warnings |-> _generate_tips(round_number),
         bureau_addresses |-> BUREAU_INFO]

----------------------------------------------------------------------------
(* The strategy route: errors_found of a stored report go to build_strategy *)

MaxErrors == 12

MaxStartRound == 3

\* the violations of a report with six kinds of finding
FoundErrors ==
    analyze_report(
        [accounts |-> <<ABCBank, NoLimitCard, MedicalCollection, OldNegative>>,
         parsed_data |->
            [inquiries |-> <<[creditor_name |-> PyStr(S_ABC_Bank),
                              inquiry_date |-> PyStr(D_12_31_2023), type |-> "hard"]>>,
             public_records |-> <<[type |-> "tax_lien", details |-> PyStr(S_abc),
                                   status |-> "active"]>>]],
        Advance(StartClock, 1)).errors

\* n violations, taken in turn from FoundErrors starting after the first o
ErrorCycle(o, n) == [i \in 1..n |-> FoundErrors[((o + i - 1) % Len(FoundErrors)) + 1]]

ErrorLists == {ErrorCycle(o, n) : o \in 0..(Len(FoundErrors) - 1), n \in 0..MaxErrors}

\* violations of the types and strategy keys that _get_letter_type tells
\* apart, as _create_error stamps them
StampedErrors ==
    {_create_error(ty, ABCBank, Description("%", <<>>)) :
        ty \in {"identity_theft", "not_my_account", "paid_collection",
                "medical_collection_ncap", "unauthorized_inquiry", "duplicate_account",
                "balance_exceeds_limit"}}

\* errors_found is a JSON column and build_strategy takes any list of dicts:
\* the same violations under another strategy key, or without the key
RestampedErrors ==
    {[e EXCEPT !.dispute_strategy = k] :
        e \in StampedErrors, k \in {"goodwill_adjustment", "section_609"}}
    \cup {[f \in DOMAIN e \ {"dispute_strategy"} |-> e[f]] : e \in StampedErrors}

\* one violation for each way through _get_letter_type
OneOfEach ==
    <<_create_error("identity_theft", ABCBank, Description("%", <<>>)),
      [_create_error("paid_collection", ABCBank, Description("%", <<>>))
          EXCEPT !.dispute_strategy = "goodwill_adjustment"],
      _create_error("unauthorized_inquiry", ABCBank, Description("%", <<>>)),
      [_create_error("balance_exceeds_limit", ABCBank, Description("%", <<>>))
          EXCEPT !.dispute_strategy = "goodwill_adjustment"],
      _create_error("duplicate_account", ABCBank, Description("%", <<>>)),
      _create_error("closed_with_balance", ABCBank, Description("%", <<>>))>>

LetterLists ==
    {<<e>> : e \in StampedErrors \cup RestampedErrors} \cup {OneOfEach}

\* a stored report: errors_found is null until the report is analyzed
StoredReports ==
    {[client_id |-> PyInt(1)]}
    \cup {[client_id |-> PyInt(1), errors_found |-> q] : q \in ErrorLists \cup LetterLists}

ClientData == [id |-> PyInt(1), full_name |-> PyStr(S_abc)]

StartRounds == 1..MaxStartRound

\* midnight of 2025-12-30 and the last second of 2028-01-31, before a leap day
StrategyClocks == {StartClock, DateTime(DayNumber(2028, 1, 31), SecondsPerDay - 1)}

StrategyInit ==
    /\ report = NoReport
    /\ now \in StrategyClocks
    /\ ticks = 0
    /\ run1 = NotRun
    /\ run2 = NotRun
    /\ strategy = NotBuilt
    /\ extraction = NotExtracted
    /\ upload = NotUploaded
    /\ calls = NoCalls
    /\ disputes = NoDisputes

\* db.query(CreditReport).get(report_id)
LoadReport ==
    /\ report = NoReport
    /\ \E r \in StoredReports : report' = r
    /\ UNCHANGED <<now, ticks, run1, run2, strategy, extraction, upload, calls, disputes>>

\* errors = report.errors_found or []; build_strategy reads the clock inside
BuildStrategy ==
    /\ report # NoReport
    /\ strategy = NotBuilt
    /\ \E round_number \in StartRounds :
          LET errors == Get(report, "errors_found", <<>>)
          IN  strategy' = [errors |-> errors,
                           round_number |-> round_number,
                           at |-> now,
                           out |-> build_strategy(errors, ClientData, round_number, now)]
    /\ UNCHANGED <<report, now, ticks, run1, run2, extraction, upload, calls, disputes>>

\* LetterGenerator.generate_letter: the dict of generators and the default
generators ==
    [bureau_dispute |-> "_generate_bureau_dispute",
     debt_validation |-> "_generate_debt_validation",
     goodwill |-> "_generate_goodwill",
     direct_creditor |-> "_generate_direct_creditor",
     cfpb_warning |-> "_generate_cfpb_warning",
     method_of_verification |-> "_generate_mov_request",
     cease_desist |-> "_generate_cease_desist",
     section_605b |-> "_generate_section_605b"]

\* the generator that writes the letter
generate_letter(letter_type) == Get(generators, letter_type, "_generate_bureau_dispute")

\* a letter is generated for every item scheduled against the first bureau
GenerateLetters ==
    /\ strategy # NotBuilt
    /\ "letters" \notin DOMAIN strategy
    /\ LET rounds == strategy.out.rounds
           items == Flatten([k \in 1..Len(rounds) |-> rounds[k][BureauOrder[1]]])
       IN  strategy' = [errors |-> strategy.errors,
                        round_number |-> strategy.round_number,
                        at |-> strategy.at,
                        out |-> strategy.out,
                        letters |-> [i \in 1..Len(items) |->
                                        [letter_type |-> items[i].letter_type,
                                         generator |-> generate_letter(items[i].letter_type)]]]
    /\ UNCHANGED <<report, now, ticks, run1, run2, extraction, upload, calls, disputes>>

StrategyNext == LoadReport \/ BuildStrategy \/ GenerateLetters \/ Tick

StrategySpec == StrategyInit /\ [][StrategyNext]_vars

Built == strategy # NotBuilt

----------------------------------------------------------------------------
(* C4 *)

Smaller(a, b) == IF a < b THEN a ELSE b

\* the sizes of a bureau's lists, in round order
SizesFor(rounds, b) == [k \in 1..Len(rounds) |-> Len(rounds[k][b])]

\* C4: for a violation list of length n, build_strategy produces exactly
\* ceil(n/5) rounds (none for n = 0); in the k-th round, counted from 0, each of
\* the three bureaus holds exactly min(5, n - 5k) items, so no bureau holds more
\* than 5 items in a round, and 12 violations give the sizes [5,5,2].
C4_RoundCapping ==
    Built =>
        LET n == Len(strategy.errors)
            rounds == strategy.out.rounds
        IN  /\ Len(rounds) = (n + 4) \div 5
            /\ strategy.out.total_rounds = (n + 4) \div 5
            /\ \A k \in 1..Len(rounds) : \A b \in {"equifax", "experian", "transunion"} :
                  /\ Len(rounds[k][b]) = Smaller(5, n - 5 * (k - 1))
                  /\ Len(rounds[k][b]) <= 5
            /\ n = 12 =>
                  \A b \in {"equifax", "experian", "transunion"} :
                      SizesFor(rounds, b) = <<5, 5, 2>>

\* a strategy built from 12 violations
C4_Witness ==
    /\ Built
    /\ Len(strategy.errors) = 12
    /\ Len(strategy.out.rounds) = 3
    /\ SizesFor(strategy.out.rounds, "experian") = <<5, 5, 2>>

----------------------------------------------------------------------------
(* C5 *)

\* a date written as YYYY-MM-DD
IsIsoDate(chars) ==
    /\ Len(chars) = 10
    /\ chars[5] = "-" /\ chars[8] = "-"
    /\ \A i \in {1, 2, 3, 4, 6, 7, 9, 10} : IsDigit(chars[i])
    /\ NumVal(SubSeq(chars, 6, 7)) \in 1..12
    /\ NumVal(SubSeq(chars, 9, 10)) \in
          1..DaysInMonth(NumVal(SubSeq(chars, 1, 4)), NumVal(SubSeq(chars, 6, 7)))

\* the day number of a date written as YYYY-MM-DD
IsoDay(chars) ==
    DayNumber(NumVal(SubSeq(chars, 1, 4)), NumVal(SubSeq(chars, 6, 7)),
              NumVal(SubSeq(chars, 9, 10)))

\* C5: in the timeline returned by build_strategy the i-th entry, counted from
\* 0, has a send date of the base date + 45*i days, a response deadline of its
\* send date + 30 days and a follow-up date of its response deadline + 7 days,
\* so the send dates of consecutive rounds are exactly 45 days apart.
C5_TimelineArithmetic ==
    Built =>
        LET timeline == strategy.out.timeline
        IN  /\ Len(timeline) = Len(strategy.out.rounds)
            /\ \A n \in 1..Len(timeline) :
                  /\ IsIsoDate(timeline[n].send_date)
                  /\ IsIsoDate(timeline[n].response_deadline)
                  /\ IsIsoDate(timeline[n].follow_up_date)
                  /\ IsoDay(timeline[n].send_date) = strategy.at.day + 45 * (n - 1)
                  /\ IsoDay(timeline[n].response_deadline) = IsoDay(timeline[n].send_date) + 30
                  /\ IsoDay(timeline[n].follow_up_date) = IsoDay(timeline[n].response_deadline) + 7
            /\ \A n \in 1..(Len(timeline) - 1) :
                  IsoDay(timeline[n + 1].send_date) = IsoDay(timeline[n].send_date) + 45

\* a timeline of three rounds that starts in the last second of 2028-02-01 and
\* crosses the leap day
C5_Witness ==
    /\ Built
    /\ Len(strategy.out.timeline) = 3
    /\ ticks = 1
    /\ strategy.out.timeline[1].send_date = <<"2","0","2","8","-","0","2","-","0","1">>
    /\ strategy.out.timeline[2].send_date = <<"2","0","2","8","-","0","3","-","1","7">>
    /\ strategy.out.timeline[2].response_deadline = <<"2","0","2","8","-","0","4","-","1","6">>

----------------------------------------------------------------------------
(* PDFParser (parsers/pdf_parser.py) *)

\* a float, kept in hundredths
PyFloat(hundredths) == [t |-> "float", n |-> hundredths, s |-> <<>>]

Whitespace == {" ", "\t", "\n"}

\* str.strip()
RECURSIVE Strip(_)
Strip(chars) ==
    IF chars = <<>> THEN <<>>
    ELSE IF Head(chars) \in Whitespace THEN Strip(Tail(chars))
    ELSE IF chars[Len(chars)] \in Whitespace THEN Strip(SubSeq(chars, 1, Len(chars) - 1))
    ELSE chars

\* str.replace(c, "")
Remove(chars, c) == SelectSeq(chars, LAMBDA x : x # c)

\* str(x) of a cell that is not falsy: a string is itself
Str(cell) == cell.s

\* a slip in line 213: the first four characters are kept
MaskKeepingFirstFour(account_num) ==
    IF ~Truthy(account_num) THEN <<>>
    ELSE LET stripped == Strip(Str(account_num))
         IN  IF Len(stripped) > 4
             THEN SubSeq(stripped, 1, 4) \o [i \in 1..(Len(stripped) - 4) |-> "X"]
             ELSE stripped

_mask_account_number(account_num) ==
    IF ~Truthy(account_num) THEN <<>>
    ELSE LET stripped == Strip(Str(account_num))
         IN  IF Len(stripped) > 4
             THEN [i \in 1..(Len(stripped) - 4) |-> "X"]
                  \o SubSeq(stripped, Len(stripped) - 3, Len(stripped))
             ELSE stripped

\* the place of the decimal point, 0 when there is none
PointAt(chars) ==
    IF \E i \in 1..Len(chars) : chars[i] = "."
    THEN CHOOSE i \in 1..Len(chars) : chars[i] = "." ELSE 0

IntPart(chars) == IF PointAt(chars) = 0 THEN chars ELSE SubSeq(chars, 1, PointAt(chars) - 1)

FracPart(chars) == IF PointAt(chars) = 0 THEN <<>> ELSE SubSeq(chars, PointAt(chars) + 1, Len(chars))

\* float() accepts digits with at most one point and at least one digit; the
\* amounts read here carry no sign, exponent or underscore and at most two
\* decimals
IsDecimal(chars) ==
    /\ AllDigits(IntPart(chars)) /\ AllDigits(FracPart(chars))
    /\ Len(IntPart(chars)) + Len(FracPart(chars)) > 0
    /\ Len(FracPart(chars)) <= 2

Hundredths(chars) ==
    NumVal(IntPart(chars)) * 100
    + (IF Len(FracPart(chars)) = 1 THEN 10 * NumVal(FracPart(chars)) ELSE NumVal(FracPart(chars)))

\* the bare except turns the ValueError of float() into 0.0
_parse_amount(amount_str) ==
    IF ~Truthy(amount_str) THEN PyFloat(0)
    ELSE LET cleaned == Strip(Remove(Remove(Str(amount_str), ","), "$"))
         IN  IF IsDecimal(cleaned) THEN PyFloat(Hundredths(cleaned)) ELSE PyFloat(0)

\* the account of one table row (lines 139-145)
RowAccount(row) ==
    [creditor_name |-> IF Truthy(row[1]) THEN row[1] ELSE PyStr(<<>>),
     account_number |-> PyStr(_mask_account_number(row[2])),
     account_type |-> PyStr(<<>>),
     current_balance |-> _parse_amount(row[3]),
     status |-> PyStr(<<>>)]

\* the rows of one table that yield an account: the header is skipped, a row
\* needs three cells and a creditor name
TableAccounts(table) ==
    IF Len(table) > 1
    THEN LET kept == SelectSeq(Tail(table),
                         LAMBDA row : Len(row) >= 3 /\ Truthy(RowAccount(row).creditor_name))
         IN  [i \in 1..Len(kept) |-> RowAccount(kept[i])]
    ELSE <<>>

\* the account of one match of the free-text pattern (lines 157-163)
BlockAccount(block) ==
    [creditor_name |-> PyStr(Strip(block[1])),
     account_number |-> PyStr(_mask_account_number(PyStr(block[2]))),
     account_type |-> PyStr(block[3]),
     current_balance |-> _parse_amount(PyStr(block[4])),
     status |-> PyStr(<<>>)]

\* a slip in line 149: the guard "if not accounts" left out, so that the text
\* matches are appended to the table accounts
ExtractAccountsFromBoth(account_blocks, tables) ==
    Flatten([i \in 1..Len(tables) |-> TableAccounts(tables[i])])
    \o [i \in 1..Len(account_blocks) |-> BlockAccount(account_blocks[i])]

\* account_blocks stands for re.findall of the free-text pattern on the text
_extract_accounts(account_blocks, tables) ==
    LET from_tables == Flatten([i \in 1..Len(tables) |-> TableAccounts(tables[i])])
    IN  IF from_tables # <<>> THEN from_tables
        ELSE [i \in 1..Len(account_blocks) |-> BlockAccount(account_blocks[i])]

----------------------------------------------------------------------------
(* Account extraction from what pdfplumber and the pattern deliver *)

MaxRows == 2

MaxBlocks == 2

T_1234 == <<"1","2","3","4">>
T_12345 == <<"1","2","3","4","5">>
T_12345_spaced == <<" ","1","2","3","4","5"," ">>
T_92345 == <<"9","2","3","4","5">>
T_12_tab == <<"\t","1","2">>
T_4111_1111 == <<"4","1","1","1","-","1","1","1","1">>
T_XXXX_1234 == <<"X","X","X","X","-","1","2","3","4">>
T_blank == <<" "," "," ">>
A_1_200_50 == <<"$","1",",","2","0","0",".","5","0">>
A_1_200 == <<"1",",","2","0","0">>
A_na == <<"n","/","a">>

\* the cells of the account number column; pdfplumber gives a string or None
NumberCells ==
    {PyNone, PyStr(<<>>), PyStr(T_1234), PyStr(T_12345), PyStr(T_12345_spaced),
     PyStr(T_92345), PyStr(T_12_tab), PyStr(T_4111_1111), PyStr(T_blank)}

AmountCells == {PyNone, PyStr(A_1_200_50), PyStr(A_na)}

HeaderRow == <<PyStr(S_abc), PyStr(S_abc), PyStr(S_abc)>>

\* rows of three cells with a creditor, and rows that are skipped or longer
RowPool ==
    {<<PyStr(S_ABC_Bank), n, a>> : n \in NumberCells, a \in AmountCells}
    \cup {<<PyNone, PyStr(T_12345), PyStr(A_1_200_50)>>,
          <<PyStr(<<>>), PyStr(T_12345), PyStr(A_1_200_50)>>,
          <<PyStr(S_ABC_Bank), PyStr(T_12345)>>,
          <<>>,
          <<PyStr(S_City_Hospital), PyStr(T_12345_spaced), PyStr(A_1_200_50), PyStr(S_open)>>}

\* matches of the pattern: group 2 is one or more of X, digits and hyphens
BlockPool ==
    {<<S_ABC_Bank, n, S_Revolving, a>> :
        n \in {T_1234, T_12345, T_4111_1111, T_XXXX_1234}, a \in {A_1_200, <<",">>}}

ABlock == <<S_City_Hospital, T_4111_1111, S_Revolving, A_1_200>>

\* a table with rows, beside text that also matches
TableDocuments ==
    {[tables |-> <<<<HeaderRow>> \o rows>>, account_blocks |-> <<ABlock>>] :
        rows \in SeqsUpTo(RowPool, MaxRows)}

\* no table, an empty table or a table of a header only, and matches in the text
TextDocuments ==
    {[tables |-> tb, account_blocks |-> bl] :
        tb \in {<<>>, << <<>> >>, << <<HeaderRow>> >>},
        bl \in SeqsUpTo(BlockPool, MaxBlocks)}

\* two tables, each a header and one row, beside text that also matches
TwoTableDocuments ==
    {[tables |-> <<<<HeaderRow, r1>>, <<HeaderRow, r2>>>>, account_blocks |-> <<ABlock>>] :
        r1, r2 \in {<<PyStr(S_ABC_Bank), PyStr(T_12345), PyStr(A_1_200_50)>>,
                    <<PyStr(S_City_Hospital), PyStr(T_92345), PyNone>>,
                    <<PyNone, PyStr(T_12345), PyStr(A_1_200_50)>>}}

Documents == TableDocuments \cup TextDocuments \cup TwoTableDocuments

\* parse_report: pdfplumber reads the pages
ReadPdf ==
    /\ extraction = NotExtracted
    /\ \E doc \in Documents : extraction' = doc
    /\ UNCHANGED <<report, now, ticks, run1, run2, strategy, upload, calls, disputes>>

\* the _parse_* methods call _extract_accounts(text, tables)
ExtractAccounts ==
    /\ extraction # NotExtracted
    /\ "accounts" \notin DOMAIN extraction
    /\ extraction' =
          [tables |-> extraction.tables,
           account_blocks |-> extraction.account_blocks,
           accounts |-> _extract_accounts(extraction.account_blocks, extraction.tables)]
    /\ UNCHANGED <<report, now, ticks, run1, run2, strategy, upload, calls, disputes>>

ParserNext == ReadPdf \/ ExtractAccounts

ParserSpec == Init /\ [][ParserNext]_vars

Extracted == "accounts" \in DOMAIN extraction

\* the structured report of parse_report goes to analyze_report: both keep
\* the accounts under the key "accounts"
AnalyzeExtracted ==
    /\ Extracted
    /\ run1 = NotRun
    /\ run1' = [at |-> now, out |-> analyze_report([accounts |-> extraction.accounts], now)]
    /\ UNCHANGED <<report, now, ticks, run2, strategy, extraction, upload, calls, disputes>>

\* the attributes of the mapped class CreditAccount: its columns and its
\* relationship
CreditAccountAttributes ==
    {"id", "report_id", "client_id", "creditor_name", "account_number",
     "account_number_masked", "account_type", "account_status", "reported_equifax",
     "reported_experian", "reported_transunion", "equifax_data", "experian_data",
     "transunion_data", "date_opened", "date_closed", "last_payment_date", "last_reported",
     "credit_limit", "high_balance", "current_balance", "monthly_payment", "past_due_amount",
     "payment_status", "late_30_count", "late_60_count", "late_90_count",
     "late_120_plus_count", "is_negative", "is_collection", "is_charge_off", "is_medical",
     "is_educational", "is_authorized_user", "has_errors", "has_discrepancies", "errors",
     "discrepancies", "dispute_recommended", "dispute_reason", "dispute_strategy",
     "credit_report"}

\* CreditAccount(**kwargs): the declarative constructor raises TypeError for a
\* keyword that is not an attribute of the class
CreditAccount(kwargs) ==
    IF DOMAIN kwargs \subseteq CreditAccountAttributes THEN kwargs ELSE Raised

\* the keywords of line 261
AccountKeywords(account_data) ==
    [k \in DOMAIN account_data \cup {"report_id", "client_id"} |->
        IF k \in {"report_id", "client_id"} THEN PyInt(1) ELSE account_data[k]]

\* upload_credit_report from line 237 on, for a document process_upload
\* accepted: the report row is committed, then one CreditAccount is built and
\* added per account and the session is committed again; a constructor that
\* raises ends the request before that second commit
StoreUpload ==
    /\ Extracted
    /\ upload = NotUploaded
    /\ LET accounts == extraction.accounts
           rows == [i \in 1..Len(accounts) |-> CreditAccount(AccountKeywords(accounts[i]))]
           failed == \E i \in 1..Len(rows) : rows[i] = Raised
       IN  upload' = [report_committed |-> TRUE,
                      raised |-> failed,
                      account_rows |-> IF failed THEN <<>> ELSE rows]
    /\ UNCHANGED <<report, now, ticks, run1, run2, strategy, extraction, calls, disputes>>

PipelineNext == ReadPdf \/ ExtractAccounts \/ AnalyzeExtracted \/ StoreUpload

PipelineSpec == Init /\ [][PipelineNext]_vars

----------------------------------------------------------------------------
(* C9 *)

\* the raw account-number token of every emitted account, in order
RowTokens(table) ==
    IF Len(table) > 1
    THEN LET kept == SelectSeq(Tail(table), LAMBDA row : Len(row) >= 3 /\ Truthy(row[1]))
         IN  [i \in 1..Len(kept) |-> kept[i][2]]
    ELSE <<>>

RawTokens(doc) ==
    LET from_tables == Flatten([i \in 1..Len(doc.tables) |-> RowTokens(doc.tables[i])])
    IN  IF from_tables # <<>> THEN from_tables
        ELSE [i \in 1..Len(doc.account_blocks) |-> PyStr(doc.account_blocks[i][2])]

\* the last four characters, or all of them when there are fewer
LastFour(chars) == SubSeq(chars, IF Len(chars) > 4 THEN Len(chars) - 3 ELSE 1, Len(chars))

\* stored is raw with every character before the last four replaced by X
MaskOf(stored, raw) ==
    /\ Len(stored) = Len(raw)
    /\ LastFour(stored) = LastFour(raw)
    /\ \A j \in 1..(Len(stored) - 4) : stored[j] = "X"

\* raw without its leading and trailing whitespace
Trimmed(raw) ==
    LET inked == {i \in 1..Len(raw) : raw[i] \notin {" ", "\t", "\n"}}
    IN  IF inked = {} THEN <<>>
        ELSE SubSeq(raw, CHOOSE i \in inked : \A j \in inked : i <= j,
                         CHOOSE i \in inked : \A j \in inked : i >= j)

\* C9 as stated: for every account emitted by account extraction from a raw
\* token r, the stored number has the length of r, its final 4 characters are
\* those of r and every preceding character is X, for every r, cells with
\* surrounding whitespace included.
C9_MaskOfRawToken ==
    Extracted =>
        /\ Len(extraction.accounts) = Len(RawTokens(extraction))
        /\ \A i \in 1..Len(extraction.accounts) :
              RawTokens(extraction)[i].t = "str" =>
                  MaskOf(extraction.accounts[i].account_number.s, RawTokens(extraction)[i].s)

\* C9, amended: for every account emitted by account extraction (table path or
\* free-text path) from a raw token r, the stored number has the length of r
\* without its surrounding whitespace, its final 4 characters are those of the
\* trimmed r and every preceding character is X; tokens of 4 or fewer
\* characters are stored unmasked and a null cell is stored as the empty string.
C9_MaskOfTrimmedToken ==
    Extracted =>
        /\ Len(extraction.accounts) = Len(RawTokens(extraction))
        /\ \A i \in 1..Len(extraction.accounts) :
              LET r == RawTokens(extraction)[i]
                  stored == extraction.accounts[i].account_number
              IN  /\ stored.t = "str"
                  /\ r.t = "str" => MaskOf(stored.s, Trimmed(r.s))
                  /\ r.t = "None" => stored.s = <<>>
                  /\ (r.t = "str" /\ Len(Trimmed(r.s)) <= 4) => stored.s = Trimmed(r.s)

\* an account from a table cell with surrounding whitespace, one from a token
\* of four characters and one from the free-text path have been emitted
C9_Witness ==
    /\ Extracted
    /\ \E i \in 1..Len(extraction.accounts) :
          /\ RawTokens(extraction)[i] = PyStr(T_12345_spaced)
          /\ extraction.accounts[i].account_number.s = <<"X","2","3","4","5">>
    /\ \E i \in 1..Len(extraction.accounts) :
          /\ RawTokens(extraction)[i] = PyStr(T_1234)
          /\ extraction.accounts[i].account_number.s = T_1234

\* the free-text path has emitted a masked account
C9_WitnessText ==
    /\ Extracted
    /\ extraction.tables = <<>>
    /\ \E i \in 1..Len(extraction.accounts) :
          extraction.accounts[i].account_number.s = <<"X","X","X","X","X","1","1","1","1">>

----------------------------------------------------------------------------
(* C11 *)

\* the strategy key of the types that have one
MappedStrategy(error_type) ==
    CASE error_type \in {"outdated_negative", "outdated_inquiry", "impossible_late_pattern",
                         "unauthorized_inquiry"} -> "fcra_violation"
      [] error_type = "duplicate_account" -> "not_my_account"
      [] error_type \in {"paid_collection", "medical_collection_ncap"} -> "collection_validation"
      [] error_type = "identity_theft" -> "section_605b"
      [] OTHER -> "factual_dispute"

\* C11: every violation returned by analyze_report, whatever rule produced it,
\* carries the severity, legal citation and estimated impact of the ERROR_TYPES
\* entry of its type, a non-null dispute-strategy key (factual_dispute for an
\* unmapped type) and a priority equal to critical=1, high=2, medium=3, low=4
\* of its severity.
C11_EveryViolationStamped ==
    Returned(run1) =>
        \A i \in 1..Len(run1.out.errors) :
            LET e == run1.out.errors[i]
            IN  /\ e.type \in DOMAIN ERROR_TYPES
                /\ e.severity = ERROR_TYPES[e.type].severity
                /\ e.fcra_section = ERROR_TYPES[e.type].fcra_section
                /\ e.estimated_impact = ERROR_TYPES[e.type].estimated_impact
                /\ "dispute_strategy" \in DOMAIN e
                /\ e.dispute_strategy = MappedStrategy(e.type)
                /\ "priority" \in DOMAIN e
                /\ e.priority = SeverityRank(e.severity)

----------------------------------------------------------------------------
(* C16 *)

\* C16: recommended_disputes holds exactly min(15, number of violations)
\* entries; entry k has rank k and describes the k-th violation of the priority
\* ranking, with that violation's type, creditor, strategy key, priority,
\* estimated impact and a legal-basis string built from its citation, none of
\* them null.
C16_RecommendationsComplete ==
    Returned(run1) =>
        LET recs == run1.out.recommended_disputes
            ranking == run1.out.priority_ranking
        IN  /\ Len(recs) = Smaller(15, Len(run1.out.errors))
            /\ \A k \in 1..Len(recs) :
                  /\ recs[k].rank = k
                  /\ recs[k].error_type = ranking[k].type
                  /\ recs[k].creditor.t = "str"
                  /\ "account" \in DOMAIN ranking[k]
                  /\ recs[k].creditor = ranking[k].account.creditor_name
                  /\ recs[k].strategy # "None"
                  /\ recs[k].priority.t = "int"
                  /\ recs[k].estimated_impact = PyInt(ranking[k].estimated_impact)
                  /\ recs[k].legal_basis.args = <<ranking[k].fcra_section>>

----------------------------------------------------------------------------
(* C19 *)

\* C19: an account gets a closed_with_balance violation exactly when its status
\* is closed or paid, its balance is non-zero (positive or negative) and it is
\* not a collection account.
C19_ClosedWithBalanceRule ==
    (Done(run1) /\ WellFormedReport(report) /\ Len(AccountsOf(report)) = 1) =>
        /\ ~run1.out.raised
        /\ LET a == AccountsOf(report)[1]
               balance == Get(a, "current_balance", PyInt(0))
               status == Lower(Get(a, "account_status", PyStr(<<>>)).s)
               expected == /\ status \in {S_closed, S_paid}
                           /\ balance.t = "int" /\ balance.n # 0
                           /\ ~Flag(a, "is_collection")
           IN  Len(SelectType(run1.out.errors, "closed_with_balance"))
                   = (IF expected THEN 1 ELSE 0)

----------------------------------------------------------------------------
(* C14 *)

\* the violations of a bureau's items over the rounds, in round order
Scheduled(rounds, b) ==
    Flatten([k \in 1..Len(rounds) |-> [j \in 1..Len(rounds[k][b]) |-> rounds[k][b][j].error]])

\* a comes no later than b by (priority ascending, estimated impact
\* descending); a violation without a stored priority sorts as priority 5
NoLater(a, b) ==
    LET pa == IF "priority" \in DOMAIN a THEN a.priority ELSE 5
        pb == IF "priority" \in DOMAIN b THEN b.priority ELSE 5
    IN  pa < pb \/ (pa = pb /\ a.estimated_impact >= b.estimated_impact)

\* C14: build_strategy schedules every violation against all three bureaus
\* exactly once: for each bureau the items over the rounds, in round order, are
\* the input violations sorted by (priority ascending, estimated impact
\* descending), none dropped or duplicated, and the three sequences are
\* identical.
C14_ScheduledOncePerBureau ==
    Built =>
        LET rounds == strategy.out.rounds
        IN  \A b \in {"equifax", "experian", "transunion"} :
               /\ IsPermutation(Scheduled(rounds, b), strategy.errors)
               /\ \A i, j \in 1..Len(Scheduled(rounds, b)) :
                     i < j => NoLater(Scheduled(rounds, b)[i], Scheduled(rounds, b)[j])
               /\ Scheduled(rounds, b) = Scheduled(rounds, "equifax")

\* twelve violations of several priorities and impacts, given out of order,
\* have been scheduled over three rounds
C14_Witness ==
    /\ Built
    /\ Len(strategy.errors) = 12
    /\ Scheduled(strategy.out.rounds, "transunion") # strategy.errors
    /\ Len(Scheduled(strategy.out.rounds, "transunion")) = 12
    /\ \E i, j \in 1..12 : strategy.errors[i].estimated_impact # strategy.errors[j].estimated_impact

----------------------------------------------------------------------------
(* C15 *)

\* the estimated impacts of a list, one per violation
ImpactSum(errors) == SumSeq([i \in 1..Len(errors) |-> errors[i].estimated_impact])

\* whole is part-tenths of total, truncated to an integer
TenthsOf(whole, part, total) == 10 * whole <= part * total /\ part * total < 10 * whole + 10

\* C15: for a violation list with non-negative integer impacts, best is the sum
\* of the impacts counted once per violation, realistic is 60% and conservative
\* 30% of that sum, each truncated to an integer, so conservative <= realistic
\* <= best; an empty list gives 0, 0, 0.
C15_Estimates ==
    Built =>
        LET est == strategy.out.estimated_improvement
            total == ImpactSum(strategy.errors)
        IN  /\ est.best = total
            /\ TenthsOf(est.realistic, 6, total)
            /\ TenthsOf(est.conservative, 3, total)
            /\ est.conservative <= est.realistic /\ est.realistic <= est.best
            /\ strategy.errors = <<>> => est = [best |-> 0, realistic |-> 0, conservative |-> 0]

\* estimates of several violations whose 30% is not a whole number
C15_Witness ==
    /\ Built
    /\ Len(strategy.errors) >= 3
    /\ (3 * ImpactSum(strategy.errors)) % 10 # 0
    /\ strategy.out.estimated_improvement.conservative > 0

----------------------------------------------------------------------------
(* C20: the identity key of an account, from extraction to analysis *)

\* the raw tokens of the accounts that were stored under one number
RawOf(acct_num) ==
    {Trimmed(RawTokens(extraction)[i].s) :
        i \in {j \in 1..Len(extraction.accounts) :
                  /\ RawTokens(extraction)[j].t = "str"
                  /\ extraction.accounts[j].account_number = acct_num}}

\* C20: across extraction then analysis, accounts are compared across bureaus
\* only when their raw (pre-mask) account numbers are equal: every reported
\* discrepancy is between accounts of one raw number, so accounts whose raw
\* numbers differ never produce a discrepancy between them.
C20_GroupedByRawNumber ==
    (Extracted /\ Done(run1)) =>
        /\ Returned(run1)
        /\ \A k \in 1..Len(run1.out.discrepancies) :
              Cardinality(RawOf(run1.out.discrepancies[k].account_number)) <= 1

----------------------------------------------------------------------------
(* PDFParser._extract_score *)

\* A text is read as the score patterns read it: a sequence of words (in lower
\* case, the search ignores case) and numbers, separated by whitespace.
Word(w) == [w |-> w, d |-> <<>>]

Number(d) == [w |-> "number", d |-> d]

NoMatch == [matched |-> FALSE, group |-> <<>>]

Match(digits) == [matched |-> TRUE, group |-> digits]

Least(S) == CHOOSE i \in S : \A j \in S : i <= j

\* score[:\s]*(\d{3}) matches at token i: the group is the first three digits
\* of the number after the word
ScoreThenNumber(text, i) ==
    /\ i + 1 <= Len(text)
    /\ text[i].w = "score"
    /\ text[i + 1].w = "number"
    /\ Len(text[i + 1].d) >= 3

\* re.search takes the leftmost match
FirstThreeAfter(text, starts, offset) ==
    IF starts = {} THEN NoMatch
    ELSE Match(SubSeq(text[Least(starts) + offset].d, 1, 3))

\* {bureau}.*?score[:\s]*(\d{3}) with DOTALL: from the first mention of the
\* bureau, the nearest score followed by a number
BureauPattern(text, bureau) ==
    LET mentions == {i \in 1..Len(text) : text[i].w = bureau}
    IN  IF mentions = {} THEN NoMatch
        ELSE FirstThreeAfter(text,
                 {i \in 1..Len(text) : i > Least(mentions) /\ ScoreThenNumber(text, i)}, 1)

\* score[:\s]*(\d{3})
ScorePattern(text) ==
    FirstThreeAfter(text, {i \in 1..Len(text) : ScoreThenNumber(text, i)}, 1)

\* (\d{3})\s*(?:credit\s*)?score: the group is the last three digits of the
\* number before the word
NumberThenScore(text) ==
    LET starts == {i \in 1..Len(text) :
                      /\ text[i].w = "number"
                      /\ Len(text[i].d) >= 3
                      /\ \/ i + 1 <= Len(text) /\ text[i + 1].w = "score"
                         \/ /\ i + 2 <= Len(text)
                            /\ text[i + 1].w = "credit"
                            /\ text[i + 2].w = "score"}
    IN  IF starts = {} THEN NoMatch
        ELSE LET d == text[Least(starts)].d
             IN  Match(SubSeq(d, Len(d) - 2, Len(d)))

\* fico\s*score[:\s]*(\d{3}) and vantage\s*score[:\s]*(\d{3})
PrefixedPattern(text, prefix) ==
    FirstThreeAfter(text, {i \in 1..Len(text) :
                              text[i].w = prefix /\ ScoreThenNumber(text, i + 1)}, 2)

\* the list patterns, each with its re.search on the text
ScoreMatches(text, bureau) ==
    <<BureauPattern(text, bureau), ScorePattern(text), NumberThenScore(text),
      PrefixedPattern(text, "fico"), PrefixedPattern(text, "vantage")>>

MinScore == 300

MaxScore == 850

\* a slip in lines 89-90: the score forced into the range
ExtractScoreClamped(text, bureau) ==
    LET matches == ScoreMatches(text, bureau)
        found == {k \in 1..Len(matches) : matches[k].matched}
    IN  IF found = {} THEN PyNone
        ELSE LET score == NumVal(matches[Least(found)].group)
             IN  PyInt(IF score < MinScore THEN MinScore
                       ELSE IF score > MaxScore THEN MaxScore ELSE score)

\* the loop over the patterns: the first match within 300..850 is returned
_extract_score(text, bureau) ==
    LET matches == ScoreMatches(text, bureau)
        kept == {k \in 1..Len(matches) :
                    /\ matches[k].matched
                    /\ MinScore <= NumVal(matches[k].group)
                    /\ NumVal(matches[k].group) <= MaxScore}
    IN  IF kept = {} THEN PyNone
        ELSE PyInt(NumVal(matches[Least(kept)].group))

----------------------------------------------------------------------------
(* OCRIntegration: process_upload and process_credit_report *)

\* _detect_bureau: the bureau named most often, the first of the three on a tie
_detect_bureau(text) ==
    LET count(b) == Cardinality({i \in 1..Len(text) : text[i].w = b})
        most == CHOOSE k \in 1..3 :
                    /\ \A j \in 1..3 : count(BureauOrder[j]) <= count(BureauOrder[k])
                    /\ \A j \in 1..(k - 1) : count(BureauOrder[j]) < count(BureauOrder[k])
    IN  IF count(BureauOrder[most]) > 0 THEN BureauOrder[most] ELSE "unknown"

\* _detect_format, as far as parse_report tests its answer
_detect_format(text) ==
    IF \E i \in 1..Len(text) : text[i].w = "smartcredit" THEN "SmartCredit"
    ELSE IF \E i \in 1..Len(text) : text[i].w = "identityiq" THEN "IdentityIQ"
    ELSE "Unknown"

\* the dict of scores for the bureaus asked
ScoresOf(text, bureaus) == [b \in bureaus |-> _extract_score(text, b)]

\* What a text holds for the extractors: its words and numbers, what
\* _extract_personal_info finds and the matches of the account pattern.
\* ocr_error marks the string "OCR Error: ..." of the OCR engine.
NoText == [no_text |-> TRUE]

ParseError == [error |-> "pdfplumber"]

\* parse_report without the bureau argument: process_upload passes none.
\* page is what pdfplumber reads, or Unreadable when it raises.
parse_report(page) ==
    IF "unreadable" \in DOMAIN page THEN ParseError
    ELSE LET text == page.text.tokens
             format == _detect_format(text)
             bureau == _detect_bureau(text)
             whole == format \in {"SmartCredit", "IdentityIQ"} \/ bureau = "unknown"
         IN  [format |-> IF format # "Unknown" THEN format
                         ELSE IF bureau = "equifax" THEN "Equifax"
                         ELSE IF bureau = "experian" THEN "Experian"
                         ELSE IF bureau = "transunion" THEN "TransUnion"
                         ELSE "Unknown",
              bureau |-> bureau,
              personal_info |-> page.text.personal_info,
              scores |-> ScoresOf(text, IF whole THEN BureauNames ELSE {bureau}),
              accounts |-> _extract_accounts(page.text.account_blocks, page.tables)]

\* a slip in lines 35-39: only the accounts looked at
HasAccountsOnly(pdf_data) ==
    Len(Get(pdf_data, "accounts", <<>>)) > 0

\* lines 35-39: personal_info, or any score, or an account
has_meaningful_data(pdf_data) ==
    LET scores == Get(pdf_data, "scores", <<>>)
    IN  \/ DOMAIN Get(pdf_data, "personal_info", <<>>) # {}
        \/ \E b \in DOMAIN scores : Truthy(scores[b])
        \/ Len(Get(pdf_data, "accounts", <<>>)) > 0

\* lines 54-80: the structured report read from the OCR text
OcrData(text) ==
    [format |-> "OCR_Extracted",
     bureau |-> _detect_bureau(text.tokens),
     personal_info |-> text.personal_info,
     scores |-> ScoresOf(text.tokens, BureauNames),
     accounts |-> _extract_accounts(text.account_blocks, <<>>),
     ocr_processed |-> TRUE]

\* lines 101-115
ImageResult(text) ==
    [success |-> TRUE,
     method_used |-> "ocr_image",
     data |-> [format |-> "Image_OCR",
               personal_info |-> text.personal_info,
               accounts |-> _extract_accounts(text.account_blocks, <<>>),
               scores |-> ScoresOf(text.tokens, BureauNames)]]

\* lines 20-27; method_used None is written "None"
InitialResult ==
    [success |-> FALSE, data |-> <<>>, errors |-> <<>>, method_used |-> "None"]

StartsWith(s, prefix) ==
    Len(s) >= Len(prefix) /\ SubSeq(s, 1, Len(prefix)) = prefix

S_image == <<"i","m","a","g","e","/">>
S_image_png == S_image \o <<"p","n","g">>
S_image_jpeg == S_image \o <<"j","p","e","g">>
S_application_pdf == <<"a","p","p","l","i","c","a","t","i","o","n","/","p","d","f">>

\* file.content_type of the upload
FileTypes == {PyNone, PyStr(S_application_pdf), PyStr(S_image_png), PyStr(S_image_jpeg)}

\* line 93
IsImage(file_type) == Truthy(file_type) /\ StartsWith(file_type.s, S_image)

MaxTokens == 3

N_720 == <<"7","2","0">>
N_900 == <<"9","0","0">>
N_1720 == <<"1","7","2","0">>

Tokens ==
    {Word("equifax"), Word("experian"), Word("score"), Word("credit"),
     Number(N_720), Number(N_900), Number(N_1720)}

\* longer texts: a later pattern decides, a second bureau, a named format
LongTexts ==
    {<<Word("score"), Number(N_900), Word("fico"), Word("score"), Number(N_720)>>,
     <<Word("score"), Number(N_900), Word("vantage"), Word("score"), Number(N_720)>>,
     <<Word("transunion"), Word("score"), Number(N_900), Number(N_1720), Word("credit"),
       Word("score")>>,
     <<Word("smartcredit"), Word("equifax"), Word("score"), Number(N_720)>>,
     <<Word("identityiq"), Word("equifax"), Word("experian"), Word("experian"),
       Word("score"), Number(N_1720)>>}

PersonalInfos == {<<>>, [name |-> "JOHN DOE"]}

Texts ==
    {[ocr_error |-> FALSE, tokens |-> t, personal_info |-> p, account_blocks |-> b] :
        t \in SeqsUpTo(Tokens, MaxTokens) \cup LongTexts,
        p \in PersonalInfos,
        b \in {<<>>, <<ABlock>>}}

\* "OCR Error: ..." holds nothing for the extractors
ErrorText ==
    [ocr_error |-> TRUE, tokens |-> <<>>, personal_info |-> <<>>, account_blocks |-> <<>>]

Unreadable == [unreadable |-> TRUE]

ATable == <<HeaderRow, <<PyStr(S_ABC_Bank), PyStr(T_12345), PyStr(A_1_200_50)>>>>

\* what pdfplumber reads: the text layer and the tables, or an exception
Pages ==
    {[text |-> t, tables |-> tb] : t \in Texts, tb \in {<<>>, <<ATable>>}}
    \cup {Unreadable}

\* what the OCR engine returns: the text, or the string of its failure
OcrTexts == Texts \cup {ErrorText}

\* process_upload is called with the saved file and its content type
ReceiveUpload ==
    /\ upload = NotUploaded
    /\ \E file_type \in FileTypes :
          upload' = [file_type |-> file_type,
                     pc |-> IF IsImage(file_type) THEN "process_image" ELSE "parse_report",
                     tried |-> <<>>,
                     text |-> NoText,
                     pdf_data |-> <<>>,
                     result |-> InitialResult]
    /\ UNCHANGED <<report, now, ticks, run1, run2, strategy, extraction, calls, disputes>>

\* line 32: pdf_parser.parse_report(file_path, bureau)
ParseReport ==
    /\ upload # NotUploaded
    /\ upload.pc = "parse_report"
    /\ \E page \in Pages :
          upload' = [upload EXCEPT
                        !.pc = "check",
                        !.tried = Append(@, "pdf_parser"),
                        !.text = IF page = Unreadable THEN NoText ELSE page.text,
                        !.pdf_data = parse_report(page)]
    /\ UNCHANGED <<report, now, ticks, run1, run2, strategy, extraction, calls, disputes>>

\* lines 35-49: the direct result is returned, or OCR comes next; the text
\* layer is not read again
CheckData ==
    /\ upload # NotUploaded
    /\ upload.pc = "check"
    /\ IF has_meaningful_data(upload.pdf_data) /\ "error" \notin DOMAIN upload.pdf_data
       THEN upload' = [upload EXCEPT
                          !.pc = "done",
                          !.result = [success |-> TRUE,
                                      data |-> upload.pdf_data,
                                      errors |-> <<>>,
                                      method_used |-> "pdf_parser"]]
       ELSE upload' = [upload EXCEPT !.pc = "process_pdf", !.text = NoText]
    /\ UNCHANGED <<report, now, ticks, run1, run2, strategy, extraction, calls, disputes>>

\* lines 50-89: ocr_engine.process_pdf and what follows it
OcrPdf ==
    /\ upload # NotUploaded
    /\ upload.pc = "process_pdf"
    /\ \E ocr_text \in OcrTexts :
          upload' = [upload EXCEPT
                        !.pc = "done",
                        !.tried = Append(@, "ocr"),
                        !.text = ocr_text,
                        !.result =
                            IF ~ocr_text.ocr_error
                            THEN [success |-> TRUE,
                                  data |-> OcrData(ocr_text),
                                  errors |-> <<>>,
                                  method_used |-> "ocr"]
                            ELSE [success |-> FALSE,
                                  data |-> <<>>,
                                  errors |-> <<"Both PDF parsing and OCR failed">>,
                                  method_used |-> "None"]]
    /\ UNCHANGED <<report, now, ticks, run1, run2, strategy, extraction, calls, disputes>>

\* lines 93-115: ocr_engine.process_image and what follows it
OcrImage ==
    /\ upload # NotUploaded
    /\ upload.pc = "process_image"
    /\ \E ocr_text \in OcrTexts :
          upload' = [upload EXCEPT
                        !.pc = "done",
                        !.tried = Append(@, "ocr_image"),
                        !.text = ocr_text,
                        !.result = ImageResult(ocr_text)]
    /\ UNCHANGED <<report, now, ticks, run1, run2, strategy, extraction, calls, disputes>>

UploadNext == ReceiveUpload \/ ParseReport \/ CheckData \/ OcrPdf \/ OcrImage

UploadSpec == Init /\ [][UploadNext]_vars

----------------------------------------------------------------------------
(* C12, C13, C18: the upload *)

Finished == upload # NotUploaded /\ upload.pc = "done"

PdfUpload == upload # NotUploaded /\ ~IsImage(upload.file_type)

Tried(path) == \E i \in 1..Len(upload.tried) : upload.tried[i] = path

\* direct extraction did not error and one of the three signals holds
Sufficient(pdf_data) ==
    /\ "error" \notin DOMAIN pdf_data
    /\ \/ pdf_data.personal_info # <<>>
       \/ \E b \in DOMAIN pdf_data.scores : pdf_data.scores[b].t # "None"
       \/ Len(pdf_data.accounts) >= 1

\* C12: for a PDF, direct text-layer extraction is always attempted first; its
\* result is returned (method pdf_parser) exactly when it did not error and a
\* signal holds (personal info, some non-null score, an account); OCR is
\* attempted exactly when no signal holds or direct extraction errored, never
\* when direct extraction was sufficient.
C12_DirectFirstThenOcr ==
    PdfUpload =>
        /\ upload.tried # <<>> => upload.tried[1] = "pdf_parser"
        /\ ~Tried("ocr_image")
        /\ Tried("ocr") => ~Sufficient(upload.pdf_data)
        /\ upload.pc = "process_pdf" => ~Sufficient(upload.pdf_data)
        /\ Finished =>
              /\ Tried("pdf_parser")
              /\ upload.result.method_used = "pdf_parser" <=> Sufficient(upload.pdf_data)
              /\ upload.result.method_used = "pdf_parser" =>
                    upload.result.success /\ upload.result.data = upload.pdf_data
              /\ Tried("ocr") <=> ~Sufficient(upload.pdf_data)

\* a direct extraction whose only signal is a score has been returned
C12_Witness ==
    /\ PdfUpload
    /\ Finished
    /\ upload.tried = <<"pdf_parser">>
    /\ upload.result.method_used = "pdf_parser"
    /\ upload.pdf_data.personal_info = <<>>
    /\ upload.pdf_data.accounts = <<>>

\* OCR has followed a direct extraction that read the file and found nothing
C12_WitnessOcr ==
    /\ PdfUpload
    /\ Finished
    /\ upload.tried = <<"pdf_parser", "ocr">>
    /\ "error" \notin DOMAIN upload.pdf_data
    /\ upload.result.method_used = "ocr"

\* every extraction path that was tried has failed
AllPathsFailed ==
    IF IsImage(upload.file_type)
    THEN upload.text.ocr_error
    ELSE ~Sufficient(upload.pdf_data) /\ upload.text.ocr_error

\* C13: for every uploaded document, PDF or image, when every extraction path
\* that was tried has failed the outcome is success = false with a non-empty
\* error description, never success = true; a run in which OCR completed but
\* found no fields is a success.
C13_FailureIsExplicit ==
    Finished =>
        /\ AllPathsFailed =>
              /\ ~upload.result.success
              /\ "errors" \in DOMAIN upload.result
              /\ upload.result.errors # <<>>
        /\ ~AllPathsFailed => upload.result.success

\* the PDF half of C13: both paths failed and the result says so
C13_PdfFailureExplicit ==
    (Finished /\ PdfUpload) =>
        /\ AllPathsFailed => ~upload.result.success /\ upload.result.errors # <<>>
        /\ ~AllPathsFailed => upload.result.success

\* the score dicts of the structured reports in hand, each with the text it
\* was read from while that text is at hand
ScoreReadings ==
    IF upload = NotUploaded THEN {}
    ELSE (IF "scores" \in DOMAIN upload.pdf_data /\ upload.text # NoText
             /\ ~Tried("ocr")
          THEN {[scores |-> upload.pdf_data.scores, text |-> upload.text.tokens]}
          ELSE {})
         \cup
         (IF upload.pc = "done" /\ "scores" \in DOMAIN upload.result.data
          THEN {[scores |-> upload.result.data.scores, text |-> upload.text.tokens]}
          ELSE {})

\* pattern k of the list matched text with a number within 300..850
Usable(text, bureau, k) ==
    LET m == ScoreMatches(text, bureau)[k]
    IN  m.matched /\ 300 <= NumVal(m.group) /\ NumVal(m.group) <= 850

\* C18: every score of every structured report produced by extraction (direct,
\* OCR or image path) is null or an integer in [300, 850]; a pattern match
\* outside the range is discarded and the next pattern is tried: the score is
\* the number of the first pattern whose match lies in the range, and null
\* when there is none.
C18_ScoresInRange ==
    \A r \in ScoreReadings : \A b \in DOMAIN r.scores :
        LET v == r.scores[b]
        IN  /\ v = PyNone \/ (v.t = "int" /\ 300 <= v.n /\ v.n <= 850)
            /\ v = PyNone <=> \A k \in 1..5 : ~Usable(r.text, b, k)
            /\ v # PyNone =>
                  \E k \in 1..5 :
                      /\ Usable(r.text, b, k)
                      /\ \A j \in 1..(k - 1) : ~Usable(r.text, b, j)
                      /\ v.n = NumVal(ScoreMatches(r.text, b)[k].group)

\* a score has been returned from a later pattern after the match of an
\* earlier one, outside the range, was discarded
C18_Witness ==
    \E r \in ScoreReadings : \E b \in DOMAIN r.scores :
        /\ r.scores[b] # PyNone
        /\ \E j, k \in 1..5 :
              /\ j < k
              /\ ScoreMatches(r.text, b)[j].matched
              /\ NumVal(ScoreMatches(r.text, b)[j].group) > 850
              /\ Usable(r.text, b, k)
              /\ r.scores[b].n = NumVal(ScoreMatches(r.text, b)[k].group)

----------------------------------------------------------------------------
(* Concurrent calls on the shared ErrorDetector and StrategyBuilder *)

\* main.py makes one ErrorDetector and one StrategyBuilder for all requests.
\* A call holds its arguments, its position and its local variables; the
\* lookup tables of the instances are read by the methods and never assigned.
MaxCalls == 2

NoResult == [no_result |-> TRUE]

ConcurrentReports ==
    {[accounts |-> <<ABCBank, NoLimitCard, MedicalCollection, OldNegative>>,
      parsed_data |->
         [inquiries |-> <<[creditor_name |-> PyStr(S_ABC_Bank),
                           inquiry_date |-> PyStr(D_12_31_2023), type |-> "hard"]>>,
          public_records |-> <<[type |-> "tax_lien", details |-> PyStr(S_abc),
                                status |-> "active"]>>]],
     [accounts |-> <<WithFields(Compliant, [account_number |-> PyStr(N_4111),
                                            current_balance |-> PyInt(500)]),
                     WithFields(Compliant, [account_number |-> PyStr(N_4111),
                                            current_balance |-> PyInt(750)])>>],
     [accounts |-> <<ABCBank, NullStatus>>]}

CallArgs ==
    {[op |-> "analyze_report", report_data |-> r] : r \in ConcurrentReports}
    \cup {[op |-> "build_strategy", errors |-> ErrorCycle(o, n), round_number |-> k] :
            o \in {0, 2}, n \in {7}, k \in {1, 2}}

\* the locals at the start of a call: errors = [], discrepancies = []
NewCall(arg) ==
    [op |-> arg.op,
     arg |-> arg,
     pc |-> IF arg.op = "analyze_report" THEN "accounts" ELSE "rounds",
     errors |-> <<>>,
     discrepancies |-> <<>>,
     rounds |-> <<>>,
     timeline |-> <<>>,
     result |-> NoResult]

\* a slip: the list of violations kept on the instance, where every call
\* appends to it
ErrorsOnInstance(cs, c) ==
    Flatten([k \in 1..Len(cs) |-> cs[k].errors])

\* errors is a local of analyze_report (line 177)
ErrorsOf(cs, c) == cs[c].errors

Running(c, op, pc) ==
    /\ c \in 1..Len(calls)
    /\ calls[c].op = op
    /\ calls[c].pc = pc

\* a request thread enters analyze_report or build_strategy
StartCall ==
    /\ Len(calls) < MaxCalls
    /\ \E arg \in CallArgs : calls' = Append(calls, NewCall(arg))
    /\ UNCHANGED <<report, now, ticks, run1, run2, strategy, extraction, upload, disputes>>

\* lines 183-186: the loop over the accounts; an exception ends the call
AnalyzeAccounts(c) ==
    /\ Running(c, "analyze_report", "accounts")
    /\ LET accounts == Get(calls[c].arg.report_data, "accounts", <<>>)
           per_account == [i \in 1..Len(accounts) |-> _analyze_account(accounts[i])]
       IN  IF \E i \in 1..Len(accounts) : per_account[i].raised
           THEN calls' = [calls EXCEPT ![c].pc = "done", ![c].result = Raised]
           ELSE calls' = [calls EXCEPT
                             ![c].pc = "discrepancies",
                             ![c].errors =
                                 ErrorsOf(calls, c)
                                 \o Flatten([i \in 1..Len(accounts) |-> per_account[i].errors])]
    /\ UNCHANGED <<report, now, ticks, run1, run2, strategy, extraction, upload, disputes>>

\* line 189
CheckCrossBureau(c) ==
    /\ Running(c, "analyze_report", "discrepancies")
    /\ calls' = [calls EXCEPT
                    ![c].pc = "outdated",
                    ![c].discrepancies =
                        _check_cross_bureau_discrepancies(
                            Get(calls[c].arg.report_data, "accounts", <<>>))]
    /\ UNCHANGED <<report, now, ticks, run1, run2, strategy, extraction, upload, disputes>>

\* lines 192-193
CheckOutdated(c) ==
    /\ Running(c, "analyze_report", "outdated")
    /\ calls' = [calls EXCEPT
                    ![c].pc = "inquiries",
                    ![c].errors =
                        ErrorsOf(calls, c)
                        \o _check_outdated_items(
                               Get(calls[c].arg.report_data, "accounts", <<>>), now)]
    /\ UNCHANGED <<report, now, ticks, run1, run2, strategy, extraction, upload, disputes>>

\* lines 196-197
CheckInquiries(c) ==
    /\ Running(c, "analyze_report", "inquiries")
    /\ LET parsed_data == Get(calls[c].arg.report_data, "parsed_data", <<>>)
       IN  calls' = [calls EXCEPT
                        ![c].pc = "public_records",
                        ![c].errors =
                            ErrorsOf(calls, c)
                            \o _check_inquiries(Get(parsed_data, "inquiries", <<>>), now)]
    /\ UNCHANGED <<report, now, ticks, run1, run2, strategy, extraction, upload, disputes>>

\* lines 200-201
CheckPublicRecords(c) ==
    /\ Running(c, "analyze_report", "public_records")
    /\ LET parsed_data == Get(calls[c].arg.report_data, "parsed_data", <<>>)
       IN  calls' = [calls EXCEPT
                        ![c].pc = "return",
                        ![c].errors =
                            ErrorsOf(calls, c)
                            \o _check_public_records(Get(parsed_data, "public_records", <<>>))]
    /\ UNCHANGED <<report, now, ticks, run1, run2, strategy, extraction, upload, disputes>>

\* lines 204-215
ReturnAnalysis(c) ==
    /\ Running(c, "analyze_report", "return")
    /\ LET errors == ErrorsOf(calls, c)
           discrepancies == calls[c].discrepancies
       IN  calls' = [calls EXCEPT
                        ![c].pc = "done",
                        ![c].result =
                            [raised |-> FALSE,
                             total_errors |-> Len(errors),
                             total_discrepancies |-> Len(discrepancies),
                             total_estimated_impact |->
                                 SumSeq([i \in 1..Len(errors) |->
                                            Get(errors[i], "estimated_impact", 0)]),
                             errors |-> errors,
                             discrepancies |-> discrepancies,
                             error_summary |-> _summarize_errors(errors),
                             priority_ranking |-> _rank_by_priority(errors),
                             recommended_disputes |->
                                 _generate_dispute_recommendations(errors)]]
    /\ UNCHANGED <<report, now, ticks, run1, run2, strategy, extraction, upload, disputes>>

\* build_strategy, line 68
OrganizeRounds(c) ==
    /\ Running(c, "build_strategy", "rounds")
    /\ calls' = [calls EXCEPT
                    ![c].pc = "timeline",
                    ![c].rounds =
                        _organize_rounds(calls[c].arg.errors, calls[c].arg.round_number)]
    /\ UNCHANGED <<report, now, ticks, run1, run2, strategy, extraction, upload, disputes>>

\* build_strategy, line 71
CreateTimeline(c) ==
    /\ Running(c, "build_strategy", "timeline")
    /\ calls' = [calls EXCEPT
                    ![c].pc = "return",
                    ![c].timeline =
                        _create_timeline(calls[c].rounds, calls[c].arg.round_number, now)]
    /\ UNCHANGED <<report, now, ticks, run1, run2, strategy, extraction, upload, disputes>>

\* build_strategy, lines 74-90
ReturnStrategy(c) ==
    /\ Running(c, "build_strategy", "return")
    /\ calls' = [calls EXCEPT
                    ![c].pc = "done",
                    ![c].result =
                        [client_id |-> GetOrNone(ClientData, "id"),
                         current_round |-> calls[c].arg.round_number,
                         total_rounds |-> Len(calls[c].rounds),
                         rounds |-> calls[c].rounds,
                         timeline |-> calls[c].timeline,
                         guide |-> _generate_guide,
                         estimated_improvement |-> _calculate_estimates(calls[c].arg.errors),
                         preparation_checklist |-> _generate_checklist,
                         tips_and_warnings |-> _generate_tips(calls[c].arg.round_number),
                         bureau_addresses |-> BUREAU_INFO]]
    /\ UNCHANGED <<report, now, ticks, run1, run2, strategy, extraction, upload, disputes>>

ConcurrentNext ==
    \/ StartCall
    \/ \E c \in 1..MaxCalls :
          \/ AnalyzeAccounts(c)
          \/ CheckCrossBureau(c)
          \/ CheckOutdated(c)
          \/ CheckInquiries(c)
          \/ CheckPublicRecords(c)
          \/ ReturnAnalysis(c)
          \/ OrganizeRounds(c)
          \/ CreateTimeline(c)
          \/ ReturnStrategy(c)

ConcurrentSpec == Init /\ [][ConcurrentNext]_vars

----------------------------------------------------------------------------
(* C17: concurrent invocations *)

\* the result of the call when nothing else runs
RunAlone(call) ==
    IF call.op = "analyze_report"
    THEN analyze_report(call.arg.report_data, now)
    ELSE build_strategy(call.arg.errors, ClientData, call.arg.round_number, now)

IsPrefix(p, q) == Len(p) <= Len(q) /\ SubSeq(q, 1, Len(p)) = p

\* C17: under any interleaving of concurrent analyze_report and build_strategy
\* invocations on the shared instances, each invocation returns the same
\* result as when run alone, and while it runs the violations it has collected
\* are its own: nothing another invocation wrote is read.
C17_SameAsRunAlone ==
    \A c \in 1..Len(calls) :
        /\ calls[c].pc = "done" => calls[c].result = RunAlone(calls[c])
        /\ (calls[c].op = "analyze_report" /\ calls[c].pc # "done") =>
              IF RunAlone(calls[c]).raised
              THEN calls[c].pc = "accounts" /\ calls[c].errors = <<>>
              ELSE IsPrefix(calls[c].errors, RunAlone(calls[c]).errors)
        /\ (calls[c].op = "build_strategy" /\ calls[c].pc \in {"timeline", "return"}) =>
              calls[c].rounds = RunAlone(calls[c]).rounds

\* the second call has returned its discrepancies while the first one, entered
\* before it on another report, is still collecting its violations
C17_Witness ==
    /\ Len(calls) = 2
    /\ calls[1].op = "analyze_report"
    /\ calls[1].pc = "inquiries"
    /\ calls[1].errors # <<>>
    /\ calls[2].op = "analyze_report"
    /\ calls[2].pc = "done"
    /\ calls[2].arg # calls[1].arg
    /\ calls[2].result = RunAlone(calls[2])
    /\ calls[2].result.raised = FALSE
    /\ calls[2].result.discrepancies # <<>>

\* a strategy has been returned while an analysis entered before it is running
C17_WitnessMixed ==
    /\ Len(calls) = 2
    /\ calls[1].op = "analyze_report"
    /\ calls[1].pc = "return"
    /\ calls[2].op = "build_strategy"
    /\ calls[2].pc = "done"
    /\ calls[2].result.total_rounds > 1

----------------------------------------------------------------------------
(* C21, C25, C26, C27: the scheduled items *)

\* every item of every round and bureau
ScheduledItems ==
    UNION {{strategy.out.rounds[k][b][j] : j \in 1..Len(strategy.out.rounds[k][b])} :
              k \in 1..Len(strategy.out.rounds), b \in {"equifax", "experian", "transunion"}}

\* the tag the rule gives for a type and a strategy key
TagFor(error_type, strategy_key) ==
    CASE error_type \in {"identity_theft", "not_my_account"} -> "section_605b"
      [] error_type \in {"paid_collection", "medical_collection_ncap"} -> "debt_validation"
      [] error_type = "unauthorized_inquiry" -> "fcra_violation"
      [] OTHER -> IF strategy_key = "goodwill_adjustment" THEN "goodwill" ELSE "bureau_dispute"

\* C21: for every scheduled item the letter-type tag is a function of the
\* violation's type and strategy key only: identity_theft or not_my_account
\* gives section_605b; paid_collection or medical_collection_ncap gives
\* debt_validation; unauthorized_inquiry gives fcra_violation; every other type
\* gives goodwill when the strategy key is goodwill_adjustment and
\* bureau_dispute otherwise.
C21_LetterTypeRule ==
    Built =>
        \A item \in ScheduledItems :
            item.letter_type =
                TagFor(item.error.type,
                       IF "dispute_strategy" \in DOMAIN item.error
                       THEN item.error.dispute_strategy ELSE "none")

\* every way through the rule has been taken in one strategy, a
\* paid_collection under the goodwill key among them
C21_Witness ==
    /\ Built
    /\ {item.letter_type : item \in ScheduledItems} =
          {"section_605b", "debt_validation", "fcra_violation", "goodwill", "bureau_dispute"}
    /\ \E item \in ScheduledItems :
          /\ item.error.type = "paid_collection"
          /\ item.error.dispute_strategy = "goodwill_adjustment"
          /\ item.letter_type = "debt_validation"

\* C25: for every start round s and every violation list, the rounds returned
\* by build_strategy are numbered s, s+1, s+2, ... in order; the timeline has
\* exactly one entry per round, in the same order and with the same round
\* number, and total_rounds is the number of rounds.
C25_RoundNumbering ==
    Built =>
        LET rounds == strategy.out.rounds
            timeline == strategy.out.timeline
        IN  /\ strategy.out.total_rounds = Len(rounds)
            /\ Len(timeline) = Len(rounds)
            /\ \A k \in 1..Len(rounds) :
                  /\ rounds[k].round_number = strategy.round_number + (k - 1)
                  /\ timeline[k].round = rounds[k].round_number

\* three rounds built from start round 3
C25_Witness ==
    /\ Built
    /\ strategy.round_number = 3
    /\ Len(strategy.out.rounds) = 3
    /\ strategy.out.rounds[3].round_number = 5
    /\ strategy.out.timeline[3].round = 5

\* C26: every dispute-strategy key the detector can stamp is a key of the
\* strategy-detail table, so the strategy detail of a scheduled item is the
\* record of the violation's own key, never the factual_dispute fallback
\* standing in for another key.
C26_OwnStrategyDetail ==
    Built =>
        \A item \in ScheduledItems :
            (/\ "dispute_strategy" \in DOMAIN item.error
             /\ item.error.dispute_strategy = _get_strategy_for_error(item.error.type)) =>
                /\ item.error.dispute_strategy \in DOMAIN strategies
                /\ item.strategy = strategies[item.error.dispute_strategy]

\* C27: every letter-type tag the Strategy Builder emits has its own generator
\* in generate_letter: no emitted tag other than bureau_dispute is rendered
\* with the default bureau-dispute template.
C27_EveryTagHasGenerator ==
    (Built /\ "letters" \in DOMAIN strategy) =>
        \A i \in 1..Len(strategy.letters) :
            /\ strategy.letters[i].letter_type \in DOMAIN generators
            /\ strategy.letters[i].generator = "_generate_bureau_dispute" =>
                  strategy.letters[i].letter_type = "bureau_dispute"

----------------------------------------------------------------------------
(* C22: negative items older than seven years *)

\* the open date of an account as a day number, NoDate where the field is
\* absent, empty, not a string or not of the form month/year
OpenedDay(account) ==
    IF "date_opened" \in DOMAIN account /\ account.date_opened.t = "str"
       /\ account.date_opened.s # <<>>
    THEN StrptimeMonthYear(account.date_opened.s)
    ELSE NoDate

\* flagged negative, with an open date that parses and lies more than seven
\* years (7 * 365 days) before the evaluation time
OlderThanSevenYears(account, clock) ==
    /\ "is_negative" \in DOMAIN account /\ Truthy(account.is_negative)
    /\ OpenedDay(account) # NoDate
    /\ Before(DateTime(OpenedDay(account) + 7 * 365, 0), clock)

OutdatedNegatives(run) == SelectSeq(run.out.errors, LAMBDA e : e.type = "outdated_negative")

OutdatedNegativeRule(run) ==
    Returned(run) =>
        LET old == SelectSeq(AccountsOf(report), LAMBDA a : OlderThanSevenYears(a, run.at))
            found == OutdatedNegatives(run)
        IN  /\ Len(found) = Len(old)
            /\ \A i \in 1..Len(found) :
                  found[i].account.creditor_name = GetOrNone(old[i], "creditor_name")
                  /\ found[i].account.account_number = GetOrNone(old[i], "account_number")

C22_WitnessUnparseable ==
    /\ Returned(run1)
    /\ Len(AccountsOf(report)) = 1
    /\ Flag(AccountsOf(report)[1], "is_negative")
    /\ Get(AccountsOf(report)[1], "date_opened", PyNone) = PyStr(D_01_15_2019)
    /\ OutdatedNegatives(run1) = <<>>

----------------------------------------------------------------------------
(* C23: hard inquiries older than two years *)

\* the day a date token of the extractor denotes: month, day, year around
\* either separator, a 2-digit year read as strptime's %y reads it (00-68 in
\* 2000, 69-99 in 1900); NoDate for a 3-digit year or an impossible date
WrittenDay(chars) ==
    IF ~IsDatePattern(chars) THEN NoDate
    ELSE LET p == CHOOSE q \in SepAt(chars) : TRUE
             m == NumVal(SubSeq(chars, 1, p[1] - 1))
             d == NumVal(SubSeq(chars, p[1] + 1, p[2] - 1))
             ychars == SubSeq(chars, p[2] + 1, Len(chars))
             y == IF Len(ychars) = 4 THEN NumVal(ychars)
                  ELSE IF NumVal(ychars) <= 68 THEN 2000 + NumVal(ychars)
                  ELSE 1900 + NumVal(ychars)
         IN  IF Len(ychars) # 3 /\ y >= 1 /\ m \in 1..12 /\ d >= 1 /\ d <= DaysInMonth(y, m)
             THEN DayNumber(y, m, d)
             ELSE NoDate

InquiriesOf(r) == Get(Get(r, "parsed_data", <<>>), "inquiries", <<>>)

\* a hard inquiry dated more than two years (2 * 365 days) before the clock
OlderThanTwoYears(inquiry, clock) ==
    /\ Get(inquiry, "type", "None") = "hard"
    /\ "inquiry_date" \in DOMAIN inquiry /\ inquiry.inquiry_date.t = "str"
    /\ WrittenDay(inquiry.inquiry_date.s) # NoDate
    /\ Before(DateTime(WrittenDay(inquiry.inquiry_date.s) + 2 * 365, 0), clock)

OutdatedInquiries(run) == SelectSeq(run.out.errors, LAMBDA e : e.type = "outdated_inquiry")

OutdatedInquiryRule(run) ==
    Returned(run) =>
        LET old == SelectSeq(InquiriesOf(report), LAMBDA q : OlderThanTwoYears(q, run.at))
            found == OutdatedInquiries(run)
        IN  /\ Len(found) = Len(old)
            /\ \A i \in 1..Len(found) : found[i].inquiry = old[i]

\* C23: for every hard inquiry the extractor can emit (date written with / or
\* - separators and a 2- to 4-digit year) whose date is more than 2 years
\* before the evaluation time, analyze_report emits one outdated_inquiry
\* violation; inquiries not of type hard and hard inquiries within 2 years
\* never produce one.
C23_OutdatedInquiryRule == OutdatedInquiryRule(run1) /\ OutdatedInquiryRule(run2)

----------------------------------------------------------------------------
(* C24: tables before free text *)

\* the rows that yield an account, table after table: rows after the header
\* row with at least 3 columns and a non-empty creditor name
YieldingRows(tables) ==
    Flatten([t \in 1..Len(tables) |->
        IF Len(tables[t]) > 1
        THEN SelectSeq(Tail(tables[t]),
                 LAMBDA row : Len(row) >= 3 /\ row[1].t = "str" /\ row[1].s # <<>>)
        ELSE <<>>])

\* C24: if at least one table row (after the header row, with at least 3
\* columns and a non-empty creditor name) yields an account, the result holds
\* exactly those table-derived accounts in table order and no account from
\* free-text matching; free-text matching contributes accounts only when the
\* tables yielded none.
C24_TablesBeforeText ==
    Extracted =>
        LET rows == YieldingRows(extraction.tables)
            blocks == extraction.account_blocks
            accounts == extraction.accounts
        IN  IF rows # <<>>
            THEN /\ Len(accounts) = Len(rows)
                 /\ \A i \in 1..Len(rows) : accounts[i] = RowAccount(rows[i])
            ELSE /\ Len(accounts) = Len(blocks)
                 /\ \A i \in 1..Len(blocks) : accounts[i] = BlockAccount(blocks[i])

\* two tables each yielded an account while the text matched as well: the
\* result is the two table accounts, in table order
C24_Witness ==
    /\ Extracted
    /\ Len(extraction.tables) = 2
    /\ extraction.account_blocks # <<>>
    /\ Len(extraction.accounts) = 2
    /\ extraction.accounts[1].creditor_name = PyStr(S_ABC_Bank)
    /\ extraction.accounts[2].creditor_name = PyStr(S_City_Hospital)

\* a table of a header only: the accounts come from the text
C24_WitnessText ==
    /\ Extracted
    /\ extraction.tables = << <<HeaderRow>> >>
    /\ Len(extraction.accounts) = 2
    /\ extraction.accounts[1].account_type = PyStr(S_Revolving)

----------------------------------------------------------------------------
(* C28: the extracted accounts as stored rows *)

\* the upload route has run on the extracted document
UploadStored == Extracted /\ upload # NotUploaded /\ "report_committed" \in DOMAIN upload

\* C28: every key of every account record emitted by the extractor is a
\* column of the persisted CreditAccount record, so the upload route stores
\* one account row per extracted account for every document that yields at
\* least one account, and never fails after the report row has been committed.
C28_OneRowPerAccount ==
    (UploadStored /\ extraction.accounts # <<>>) =>
        /\ \A i \in 1..Len(extraction.accounts) :
              DOMAIN extraction.accounts[i] \subseteq CreditAccountAttributes
        /\ Len(upload.account_rows) = Len(extraction.accounts)
        /\ ~(upload.report_committed /\ upload.raised)

----------------------------------------------------------------------------
(* The analyze route: stored rows, their projection, the analysis *)

\* the value of a column of a stored row: what was stored, or the column's
\* default (0 for the late counters, False for the flags, NULL otherwise)
ColumnValue(row, key) ==
    IF key \in DOMAIN row THEN row[key]
    ELSE IF key \in {"late_30_count", "late_60_count", "late_90_count"} THEN PyInt(0)
    ELSE IF key \in {"is_negative", "is_collection", "is_authorized_user"} THEN PyFalse
    ELSE PyNone

\* the keys of the dict built per account in lines 295-306
ProjectedKeys ==
    {"creditor_name", "account_number", "current_balance", "credit_limit", "is_negative",
     "is_collection", "late_30_count", "late_60_count", "late_90_count", "account_status"}

Projection(row) == [k \in ProjectedKeys |-> ColumnValue(row, k)]

\* report_data of lines 293-310
RouteReportData(stored) ==
    [accounts |-> [i \in 1..Len(stored.rows) |-> Projection(stored.rows[i])],
     parsed_data |-> stored.parsed_data]

\* the rows of one stored report
MaxStoredRows == 2

\* an authorized-user account flagged negative, no open date
AuthorizedNegative ==
    WithFields(Compliant, [account_number |-> PyStr(N_5500), is_authorized_user |-> PyTrue,
                           is_negative |-> PyTrue])

StoredRowPool ==
    {ABCBank, Compliant, NoLimitCard, OldNegative, MedicalCollection, AuthorizedNegative,
     WithFields(OldNegative, [is_authorized_user |-> Absent, account_status |-> PyStr(S_open)])}

StoredRowReports ==
    {[rows |-> q, parsed_data |-> pd] :
        q \in SeqsUpTo(StoredRowPool, MaxStoredRows),
        pd \in {<<>>, [inquiries |-> <<>>, public_records |-> <<>>]}}

\* db.query(CreditReport).get(report_id) and the query of its accounts
QueryReport ==
    /\ report = NoReport
    /\ \E r \in StoredRowReports : report' = r
    /\ UNCHANGED <<now, ticks, run1, run2, strategy, extraction, upload, calls, disputes>>

\* the account flags of lines 325-331: an account is marked when a violation
\* names its account number
FlaggedRow(row, errors) ==
    LET account_errors ==
            SelectSeq(errors, LAMBDA e :
                GetOrNone(Get(e, "account", <<>>), "account_number")
                    = ColumnValue(row, "account_number"))
    IN  IF account_errors # <<>>
        THEN [k \in DOMAIN row \cup {"has_errors", "errors", "dispute_recommended"} |->
                 IF k = "errors" THEN account_errors
                 ELSE IF k \in {"has_errors", "dispute_recommended"} THEN PyTrue
                 ELSE row[k]]
        ELSE row

\* analyze_credit_report from line 290 on: the projection is analysed, and
\* when the analysis returns the report and its accounts are updated and
\* committed; when it raises nothing is committed
AnalyzeStored ==
    /\ report # NoReport
    /\ run1 = NotRun
    /\ LET analysis == analyze_report(RouteReportData(report), now)
       IN  /\ run1' = [at |-> now, out |-> analysis]
           /\ report' =
                 IF analysis.raised THEN report
                 ELSE [rows |-> [i \in 1..Len(report.rows) |->
                                    FlaggedRow(report.rows[i], analysis.errors)],
                       parsed_data |-> report.parsed_data,
                       errors_found |-> analysis.errors,
                       discrepancies |-> analysis.discrepancies,
                       total_errors |-> analysis.total_errors,
                       total_discrepancies |-> analysis.total_discrepancies,
                       analysis_complete |-> TRUE,
                       analysis_date |-> now]
    /\ UNCHANGED <<now, ticks, run2, strategy, extraction, upload, calls, disputes>>

RouteNext == QueryReport \/ AnalyzeStored \/ Tick

RouteSpec == Init /\ [][RouteNext]_vars

----------------------------------------------------------------------------
(* C29: what the rules read and what the route passes *)

ErrorTypes(errors) == [i \in 1..Len(errors) |-> errors[i].type]

\* the violations the rules find on the stored rows themselves
OnStoredRows(run) ==
    analyze_report([accounts |-> [i \in 1..Len(report.rows) |->
                                     [k \in CreditAccountAttributes \cap
                                            (DOMAIN report.rows[i] \cup ProjectedKeys) |->
                                         ColumnValue(report.rows[i], k)]],
                    parsed_data |-> report.parsed_data], run.at)

\* C29: every account field read by a detection rule is present in the
\* account projection that the analyze route passes to analyze_report, so
\* every rule can fire for a stored account that satisfies its condition: the
\* route finds the violations the rules find on the stored rows.
C29_EveryRuleCanFire ==
    (Returned(run1) /\ "rows" \in DOMAIN report /\ ~OnStoredRows(run1).raised) =>
        ErrorTypes(run1.out.errors) = ErrorTypes(OnStoredRows(run1).errors)

----------------------------------------------------------------------------
(* NotificationScheduler.check_follow_up_reminders *)

\* a DateTime column that is NULL
NullDate == [null |-> TRUE]

\* timedelta(days=25)
FollowUpCutoffDays == 25

\* bounds of the model
MaxDisputeRows == 2

MaxRuns == 2

\* the filter of lines 40-44: status sent, sent_date <= cutoff_date (never
\* true of a NULL), follow_up_date NULL
NeedsFollowUp(dispute, clock) ==
    /\ dispute.status = "sent"
    /\ dispute.sent_date # NullDate
    /\ ~Before(MinusDays(clock, FollowUpCutoffDays), dispute.sent_date)
    /\ dispute.follow_up_date = NullDate

\* line 63 left out: the reminder goes out and the dispute stays as it was
RemindedUndated(dispute, clock) == dispute

\* line 63, committed by the commit of create_notification
Reminded(dispute, clock) ==
    [dispute EXCEPT !.follow_up_date = clock]

\* the loop of lines 47-78 from row i on: rows holds the table, sent the
\* reminders sent so far. A dispute whose client row is gone ends the run at
\* line 49 (client.id of None); what the earlier iterations committed stays.
\* A dispute without a user is passed over.
RECURSIVE FollowUpLoop(_, _, _, _)
FollowUpLoop(rows, sent, i, clock) ==
    IF i > Len(rows) THEN [rows |-> rows, sent |-> sent]
    ELSE IF ~NeedsFollowUp(rows[i], clock) THEN FollowUpLoop(rows, sent, i + 1, clock)
    ELSE IF ~rows[i].has_client THEN [rows |-> rows, sent |-> sent]
    ELSE IF ~rows[i].has_user THEN FollowUpLoop(rows, sent, i + 1, clock)
    ELSE FollowUpLoop([rows EXCEPT ![i] = Reminded(rows[i], clock)],
                      Append(sent, [dispute_id |-> i, at |-> clock]), i + 1, clock)

\* the disputes a table may hold
SentDates ==
    {MinusDays(StartClock, 26), MinusDays(StartClock, 25),
     Advance(MinusDays(StartClock, 25), 1), MinusDays(StartClock, 24)}

DisputePool ==
    {[status |-> "sent", sent_date |-> sd, follow_up_date |-> fu, has_user |-> u,
      has_client |-> TRUE] :
        sd \in SentDates \cup {NullDate},
        fu \in {NullDate, MinusDays(StartClock, 1)},
        u \in BOOLEAN}
    \cup {[status |-> st, sent_date |-> MinusDays(StartClock, 26), follow_up_date |-> NullDate,
           has_user |-> TRUE, has_client |-> TRUE] : st \in {"pending", "response_received"}}
    \cup {[status |-> "sent", sent_date |-> MinusDays(StartClock, 26),
           follow_up_date |-> NullDate, has_user |-> TRUE, has_client |-> FALSE]}

\* the disputes table as the routes left it
StoreDisputes ==
    /\ disputes = NoDisputes
    /\ \E rows \in SeqsUpTo(DisputePool, MaxDisputeRows) :
          disputes' = [rows |-> rows, runs |-> 0, sent |-> <<>>]
    /\ UNCHANGED <<report, now, ticks, run1, run2, strategy, extraction, upload, calls>>

\* one run of check_follow_up_reminders
CheckFollowUps ==
    /\ disputes # NoDisputes
    /\ disputes.runs < MaxRuns
    /\ LET after == FollowUpLoop(disputes.rows, disputes.sent, 1, now)
       IN  disputes' = [rows |-> after.rows, runs |-> disputes.runs + 1, sent |-> after.sent]
    /\ UNCHANGED <<report, now, ticks, run1, run2, strategy, extraction, upload, calls>>

SchedulerNext == StoreDisputes \/ CheckFollowUps \/ Tick

SchedulerSpec == Init /\ [][SchedulerNext]_vars

----------------------------------------------------------------------------
(* C30: at most one follow-up reminder per dispute *)

RemindersOf(i) == SelectSeq(disputes.sent, LAMBDA r : r.dispute_id = i)

\* every dispute has at most one reminder, and a reminded dispute is in status
\* sent, was sent at least 25 days before the reminder and carries the time
\* of the reminder as its follow-up date
OneReminderEach ==
    disputes # NoDisputes =>
        \A i \in 1..Len(disputes.rows) :
            /\ Len(RemindersOf(i)) <= 1
            /\ RemindersOf(i) # <<>> =>
                  LET row == disputes.rows[i]
                      at == RemindersOf(i)[1].at
                  IN  /\ row.status = "sent" /\ row.has_user
                      /\ row.sent_date # NullDate
                      /\ ~Before(at, PlusDays(row.sent_date, 25))
                      /\ row.follow_up_date = at

\* a run reminds only disputes that had no follow-up date before it, and it
\* leaves a dispute whose user is missing as it was
RunRule ==
    (disputes # NoDisputes /\ disputes' # NoDisputes) =>
        \A i \in 1..Len(disputes.rows) :
            /\ Len(SelectSeq(disputes'.sent, LAMBDA r : r.dispute_id = i)) > Len(RemindersOf(i))
                  => disputes.rows[i].follow_up_date = NullDate
            /\ ~disputes.rows[i].has_user =>
                  /\ disputes'.rows[i] = disputes.rows[i]
                  /\ SelectSeq(disputes'.sent, LAMBDA r : r.dispute_id = i) = <<>>

\* C30: over any sequence of sequential check_follow_up_reminders runs, each
\* dispute receives at most one follow-up reminder: a reminder is sent only
\* for a dispute in status sent, sent at least 25 days ago, with no follow-up
\* date, and sending it sets the follow-up date so that no later run selects
\* the same dispute again; a dispute whose user is missing gets neither a
\* reminder nor a follow-up date.
C30_AtMostOneReminder == []OneReminderEach /\ [][RunRule]_vars

\* two runs were made; the first reminded a dispute, which the second passed
\* over while it reminded another one that had become 25 days old
C30_Witness ==
    /\ disputes # NoDisputes
    /\ disputes.runs = 2
    /\ Len(disputes.sent) = 2
    /\ disputes.sent[1].at # disputes.sent[2].at
    /\ disputes.sent[1].dispute_id # disputes.sent[2].dispute_id

\* a dispute whose user is missing was due and two runs passed over it
C30_WitnessNoUser ==
    /\ disputes # NoDisputes
    /\ disputes.runs = 2
    /\ \E i \in 1..Len(disputes.rows) :
          ~disputes.rows[i].has_user /\ NeedsFollowUp(disputes.rows[i], now)

====
